---- MODULE Spec2Model ----
(***************************************************************************)
(* Completion-queue driven unary RPC engine of the rgrpc package:          *)
(*   robust_grpc_client_call (src/src/client.cpp)                          *)
(*   robust_grpc_server_run  (src/src/server.cpp)                          *)
(* The transport library is the environment: it completes submitted        *)
(* batches, writes their output slots and posts (tag, success) events.     *)
(***************************************************************************)
EXTENDS Integers, Sequences, FiniteSets, TLC

\* ------------------------------------------------------------------ bounds
MaxLen == 1
MaxMeta == 2
MaxCalls == 2

\* ------------------------------------------------------------ value spaces
Bytes == {1, 2}

Payloads == UNION {[1..n -> Bytes] : n \in 0..MaxLen}

\* a grpc_byte_buffer* slot: NULL, or a buffer holding a byte sequence
NullBB == [present |-> FALSE, bytes |-> <<>>]

BB(bytes) == [present |-> TRUE, bytes |-> bytes]

ByteBuffers == {NullBB} \cup {BB(p) : p \in Payloads}

\* what an arbitrary peer answers with: no message, an empty one, a non-empty one
PeerResponses == {NullBB, BB(<<>>), BB(<<2, 1>>)}

Codes == {"OK", "CANCELLED", "UNKNOWN", "INVALID_ARGUMENT",
          "DEADLINE_EXCEEDED", "UNIMPLEMENTED", "INTERNAL"}

\* std::to_string of a grpc_status_code
to_string(code) ==
  CASE code = "OK" -> "0"
    [] code = "CANCELLED" -> "1"
    [] code = "UNKNOWN" -> "2"
    [] code = "INVALID_ARGUMENT" -> "3"
    [] code = "DEADLINE_EXCEEDED" -> "4"
    [] code = "UNIMPLEMENTED" -> "12"
    [] code = "INTERNAL" -> "13"

\* a status detail string, kept as the pieces it was concatenated from
Details == {<<>>, <<"peer detail">>}

Targets == {"", "localhost:50051"}

Methods == {"", "/echo", "/rev", "/rcpp", "/std", "/unk", "/none"}

\* the methods the modelled client calls
ClientMethods == {"", "/echo"}

\* the R list given as metadata: n strings, alternately key and value
MdOfLen(n) == [i \in 1..n |-> IF i % 2 = 1 THEN "k" ELSE "v"]

Metadatas == {MdOfLen(n) : n \in 0..MaxMeta}

\* ---------------------------------------------------------------- helpers
Plus(f, key, n) == [f EXCEPT ![key] = @ + n]

RECURSIVE PlusAll(_, _)
PlusAll(f, keys) ==
  IF keys = <<>> THEN f ELSE PlusAll(Plus(f, Head(keys), 1), Tail(keys))

Contains(seq, x) == \E i \in 1..Len(seq) : seq[i] = x

\* ================================================================ CLIENT
VARIABLES
  c_pc,          \* position of robust_grpc_client_call
  c_in,          \* its arguments
  c_store,       \* metadata_store: the key/value records built from c_in
  c_send_md,     \* initial_metadata_send: count and where .metadata points
  c_batch,       \* the call's one batch: none, rejected, pending, posted, observed
  c_post,        \* success flag of the posted completion event
  c_deadline,    \* the call deadline has elapsed
  c_qshut,       \* the completion queue reports shutdown
  c_recv,        \* output slots: status_code_recv, details_slice_recv, response_bb
  c_event,       \* the event returned by the poll at client.cpp:187
  c_seen,        \* the output slots as that poll found them
  c_error,       \* error_detail_str
  c_result,      \* result_rawvector
  c_ret,         \* what the caller got: nothing yet, a value, or a fault
  c_cancel,      \* number of grpc_call_cancel_with_status calls
  c_alloc,       \* per resource kind: how many were created
  c_free,        \* per resource kind: how many were released
  c_early,       \* releases made while the batch was still outstanding
  c_calls        \* the library calls made on the queue, the batch and in the cleanup

cvars == <<c_pc, c_in, c_store, c_send_md, c_batch, c_post, c_deadline, c_qshut,
           c_recv, c_event, c_seen, c_error, c_result, c_ret, c_cancel, c_alloc, c_free,
           c_early, c_calls>>

CRes == {"grpc", "md_entry", "cq", "creds", "channel", "method_slice", "call",
         "request_slice", "request_bb", "response_bb", "resp_slice",
         "details", "md_recv_initial", "md_recv_trailing"}

NoEvent == [type |-> "NONE", success |-> FALSE]

NoArgs == [target |-> "", method |-> "", payload |-> <<>>, metadata |-> <<>>]

EmptyMdArray == [count |-> 0, metadata |-> "null"]

InitClient ==
  /\ c_pc = "idle"
  /\ c_in = NoArgs
  /\ c_store = <<>>
  /\ c_send_md = EmptyMdArray
  /\ c_batch = "none"
  /\ c_post = FALSE
  /\ c_deadline = FALSE
  /\ c_qshut = FALSE
  /\ c_recv = [status |-> "UNKNOWN", details |-> <<>>, response_bb |-> NullBB]
  /\ c_event = NoEvent
  /\ c_seen = c_recv
  /\ c_error = <<>>
  /\ c_result = <<>>
  /\ c_ret = [kind |-> "none", value |-> <<>>, fault |-> <<>>]
  /\ c_alloc = [r \in CRes |-> 0]
  /\ c_free = [r \in CRes |-> 0]
  /\ c_cancel = 0
  /\ c_early = {}
  /\ c_calls = <<>>

\* sliceToRawVector: a RawVector of the slice's length with its bytes copied
sliceToRawVectorMutantNoCopy(slice) == [i \in 1..Len(slice) |-> 0]

sliceToRawVector(slice) == [i \in 1..Len(slice) |-> slice[i]]

\* client.cpp:80-94: the store is filled only from a non-empty, even-length list
MetadataStore(md) ==
  IF Len(md) > 0 /\ Len(md) % 2 = 0
  THEN [i \in 1..(Len(md) \div 2) |-> [key |-> md[2 * i - 1], value |-> md[2 * i]]]
  ELSE <<>>

SendArray(store) ==
  IF Len(store) > 0
  THEN [count |-> Len(store), metadata |-> "store"]
  ELSE EmptyMdArray

\* stages of client.cpp:104-178 at which the library can refuse
CreateFailures == {"none", "cq", "creds", "channel", "call", "batch"}

Stop(msg) == [kind |-> "fault", value |-> <<>>, fault |-> msg]

Return(v) == [kind |-> "value", value |-> v, fault |-> <<>>]

\* grpc_metadata_array_destroy, grpc_slice_unref: release what the slot holds
ReleaseHeld(free, alloc, key) ==
  IF alloc[key] > free[key] THEN Plus(free, key, 1) ELSE free

\* client.cpp:243-294, the releases made by the cleanup block
Cleanup(free, alloc, recv, store) ==
  LET f1 == Plus(free, "request_bb", 1)
      f2 == IF recv.response_bb.present THEN Plus(f1, "response_bb", 1) ELSE f1
      f3 == ReleaseHeld(f2, alloc, "details")
      f4 == Plus(f3, "md_entry", 2 * Len(store))
      f5 == ReleaseHeld(f4, alloc, "md_recv_initial")
      f6 == ReleaseHeld(f5, alloc, "md_recv_trailing")
  IN PlusAll(f6, <<"call", "channel">>)

\* one call into the library: the function and what identifies its argument
Call(fn, arg) == [fn |-> fn, arg |-> arg]

\* client.cpp:146-175: the operations of the client's batch, in the order of ops[]
BatchOpsMutantStatusFirst ==
  <<"RECV_STATUS_ON_CLIENT", "SEND_INITIAL_METADATA", "SEND_MESSAGE",
    "SEND_CLOSE_FROM_CLIENT", "RECV_INITIAL_METADATA", "RECV_MESSAGE">>

BatchOps ==
  <<"SEND_INITIAL_METADATA", "SEND_MESSAGE", "SEND_CLOSE_FROM_CLIENT",
    "RECV_INITIAL_METADATA", "RECV_MESSAGE", "RECV_STATUS_ON_CLIENT">>

\* client.cpp:263-267: the array no longer points into metadata_store
ResetSendArrayMutantKept(arr) == arr

ResetSendArray(arr) == EmptyMdArray

\* client.cpp:256-260: the key and the value slice of every record of the store
RECURSIVE UnrefStore(_)
UnrefStore(store) ==
  IF store = <<>> THEN <<>>
  ELSE <<Call("grpc_slice_unref", <<"meta.key", Head(store).key>>),
         Call("grpc_slice_unref", <<"meta.value", Head(store).value>>)>>
       \o UnrefStore(Tail(store))

\* client.cpp:243-290: the calls of the cleanup block, in order
CleanupCalls(recv, store, send_md) ==
  <<Call("grpc_byte_buffer_destroy", <<"request_bb">>)>>
  \o (IF recv.response_bb.present
      THEN <<Call("grpc_byte_buffer_destroy", <<"response_bb">>)>> ELSE <<>>)
  \o <<Call("grpc_slice_unref", <<"details_slice_recv">>)>>
  \o UnrefStore(store)
  \o <<Call("grpc_metadata_array_destroy",
            <<"initial_metadata_send", ResetSendArray(send_md).metadata>>),
       Call("grpc_metadata_array_destroy", <<"initial_metadata_recv">>),
       Call("grpc_metadata_array_destroy", <<"trailing_metadata_recv">>),
       Call("grpc_call_unref", <<"call">>),
       Call("grpc_channel_destroy", <<"channel">>)>>

\* the resources the pending batch refers to and the cleanup block releases
BatchRefs == {"request_bb", "md_entry", "md_recv_initial", "md_recv_trailing",
              "call"}

\* client.cpp:104-185: what the function holds after creating queue, credentials,
\* channel and call and submitting the batch, when `fail` is the stage refused
StartOutcome(md, fail) ==
  LET store == MetadataStore(md)
      a0 == Plus(Plus(c_alloc, "grpc", 1), "md_entry", 2 * Len(store))
      aCq == Plus(a0, "cq", 1)
      aCreds == Plus(aCq, "creds", 1)
      aChan == Plus(aCreds, "channel", 1)
      aCall == PlusAll(aChan, <<"method_slice", "call">>)
      aBatch == PlusAll(aCall, <<"request_slice", "request_bb">>)
      created == <<Call("grpc_completion_queue_create_for_next", <<>>)>>
      destroyed == Append(created, Call("grpc_completion_queue_destroy", <<>>))
      started == Append(created, Call("grpc_call_start_batch", BatchOps))
      base == [alloc |-> a0, free |-> c_free, ret |-> c_ret, pc |-> "done",
               batch |-> "none", error |-> <<>>, send_md |-> SendArray(store),
               calls |-> <<>>]
  IN
  CASE fail = "cq" ->
         [base EXCEPT !.ret = Stop(<<"Robust Client: Failed to create CQ.">>)]
    [] fail = "creds" ->
         [base EXCEPT
            !.alloc = aCq,
            !.free = PlusAll(c_free, <<"cq", "grpc">>),
            !.calls = destroyed,
            !.ret = Stop(<<"Robust Client: grpc_insecure_credentials_create failed.">>)]
    [] fail = "channel" ->
         [base EXCEPT
            !.alloc = aCreds,
            !.free = PlusAll(c_free, <<"creds", "cq", "grpc">>),
            !.calls = destroyed,
            !.ret = Stop(<<"Robust Client: grpc_channel_create returned NULL.">>)]
    [] fail = "call" ->
         [base EXCEPT
            !.alloc = Plus(aChan, "method_slice", 1),
            !.free = PlusAll(c_free, <<"creds", "method_slice", "channel", "cq",
                                       "grpc">>),
            !.calls = destroyed,
            !.ret = Stop(<<"Robust Client: grpc_channel_create_call returned NULL.">>)]
    [] fail = "batch" ->
         [base EXCEPT
            !.alloc = aBatch,
            !.free = Cleanup(PlusAll(c_free, <<"creds", "method_slice",
                                               "request_slice">>),
                             aBatch, c_recv, store),
            !.pc = "draining",
            !.batch = "rejected",
            !.calls = started \o CleanupCalls(c_recv, store, SendArray(store)),
            !.error = <<"Robust Client: grpc_call_start_batch failed with error: ",
                        "GRPC_CALL_ERROR">>,
            !.send_md = ResetSendArray(SendArray(store))]
    [] fail = "none" ->
         [base EXCEPT
            !.alloc = aBatch,
            !.free = PlusAll(c_free, <<"creds", "method_slice", "request_slice">>),
            !.pc = "waiting",
            !.batch = "pending",
            !.calls = started,
            !.error = <<"RPC failed.">>]

\* client.cpp:32-185: from entry to the submission of the batch
ClientStart ==
  /\ c_pc = "idle"
  /\ \E t \in Targets, m \in ClientMethods, p \in Payloads, md \in Metadatas,
        fail \in CreateFailures :
       LET o == StartOutcome(md, fail)
       IN /\ c_in' = [target |-> t, method |-> m, payload |-> p, metadata |-> md]
          /\ c_store' = MetadataStore(md)
          /\ c_send_md' = o.send_md
          /\ c_alloc' = o.alloc
          /\ c_free' = o.free
          /\ c_ret' = o.ret
          /\ c_pc' = o.pc
          /\ c_batch' = o.batch
          /\ c_error' = o.error
          /\ c_calls' = o.calls
  /\ UNCHANGED <<c_post, c_deadline, c_qshut, c_recv, c_event, c_seen, c_result,
                 c_cancel, c_early>>

\* client.cpp:187: the deadline given to the poll is call_deadline itself, so the
\* poll times out when the call deadline has passed and not before
PollDeadlinePassedMutantShortSlice == TRUE

PollDeadlinePassed == c_deadline

\* the events grpc_completion_queue_next(cq, call_deadline) can return now
ClientPoll ==
  IF c_batch = "posted"
  THEN {[type |-> "OP_COMPLETE", success |-> c_post]}
  ELSE {[type |-> "QUEUE_SHUTDOWN", success |-> FALSE] : x \in {c_qshut} \ {FALSE}}
       \cup {[type |-> "QUEUE_TIMEOUT", success |-> FALSE] :
               x \in {PollDeadlinePassed} \ {FALSE}}

\* client.cpp:190-241: error_detail_str, result_rawvector and the cancellation
ClassifyMutantDropsDetail(ev, recv) ==
  LET keep == [error |-> c_error, result |-> c_result, cancel |-> 0, read |-> 0]
  IN
  IF ev.type = "OP_COMPLETE" /\ ev.success /\ recv.status = "OK"
       /\ recv.response_bb.present
  THEN [keep EXCEPT !.result = sliceToRawVector(recv.response_bb.bytes), !.read = 1]
  ELSE IF ev.type = "OP_COMPLETE" /\ ev.success /\ recv.status # "OK"
  THEN [keep EXCEPT !.error = <<"RPC failed with server status ",
                                to_string(recv.status)>>]
  ELSE IF ev.type = "QUEUE_TIMEOUT" THEN [keep EXCEPT !.cancel = 1]
  ELSE keep

Classify(ev, recv) ==
  LET keep == [error |-> c_error, result |-> c_result, cancel |-> 0, read |-> 0]
  IN
  IF ev.type = "OP_COMPLETE" THEN
    IF ev.success THEN
      IF recv.status = "OK" THEN
        IF recv.response_bb.present
        THEN [keep EXCEPT !.result = sliceToRawVector(recv.response_bb.bytes),
                          !.read = 1]
        ELSE keep
      ELSE [keep EXCEPT !.error = <<"RPC failed with server status ",
                                    to_string(recv.status), ": ">> \o recv.details]
    ELSE [keep EXCEPT !.error =
            <<"RPC batch failed (event.success=0). Final status from server (if any): ",
              to_string(recv.status)>>
            \o (IF recv.details # <<>> THEN <<". Details: ">> \o recv.details
                ELSE <<>>)]
  ELSE IF ev.type = "QUEUE_TIMEOUT" THEN
    [keep EXCEPT !.error = <<"Robust Client: Call timed out waiting for completion queue.">>,
                 !.cancel = 1]
  ELSE [keep EXCEPT !.error = <<"Robust Client: Unexpected event type from CQ: ",
                                ev.type>>]

\* client.cpp:187-294: the poll, the classification and the cleanup block
ClientNext ==
  /\ c_pc = "waiting"
  /\ \E ev \in ClientPoll :
       LET k == Classify(ev, c_recv)
           a1 == Plus(c_alloc, "resp_slice", k.read)
       IN /\ c_event' = ev
          /\ c_seen' = c_recv
          /\ c_error' = k.error
          /\ c_result' = k.result
          /\ c_cancel' = c_cancel + k.cancel
          /\ c_alloc' = a1
          /\ c_free' = Cleanup(Plus(c_free, "resp_slice", k.read), a1, c_recv, c_store)
          /\ c_batch' = IF ev.type = "OP_COMPLETE" THEN "observed" ELSE c_batch
          /\ c_early' = IF ev.type = "OP_COMPLETE" THEN {} ELSE BatchRefs
          /\ c_calls' = c_calls
                \o <<Call("grpc_completion_queue_next", <<"call_deadline", ev.type>>)>>
                \o (IF k.cancel = 1
                    THEN <<Call("grpc_call_cancel_with_status", <<"call">>)>>
                    ELSE <<>>)
                \o CleanupCalls(c_recv, c_store, c_send_md)
  /\ c_recv' = [c_recv EXCEPT !.response_bb = NullBB]
  /\ c_send_md' = ResetSendArray(c_send_md)
  /\ c_pc' = "draining"
  /\ UNCHANGED <<c_in, c_store, c_post, c_deadline, c_qshut, c_ret>>

\* client.cpp:305-308: a fault unless status_code_recv is OK
OutcomeMutantLengthCheck(recv, error, result) ==
  IF recv.status # "OK" \/ Len(result) = 0 THEN Stop(error) ELSE Return(result)

Outcome(recv, error, result) ==
  IF recv.status # "OK" THEN Stop(error) ELSE Return(result)

\* client.cpp:293-298, server.cpp:459-464: the queue is shut down, polled until it
\* reports its shutdown, and destroyed
DrainAndDestroy ==
  <<Call("grpc_completion_queue_shutdown", <<>>),
    Call("grpc_completion_queue_next", <<"gpr_time_0", "QUEUE_SHUTDOWN">>),
    Call("grpc_completion_queue_destroy", <<>>)>>

\* client.cpp:295-308: the queue is drained and destroyed, the library shut down,
\* and the caller gets the outcome
ClientFinish ==
  /\ c_pc = "draining"
  /\ c_batch # "pending" \/ c_qshut
  /\ c_free' = PlusAll(c_free, <<"cq", "grpc">>)
  /\ c_calls' = c_calls \o DrainAndDestroy
  /\ c_ret' = Outcome(c_recv, c_error, c_result)
  /\ c_pc' = "done"
  /\ UNCHANGED <<c_in, c_store, c_send_md, c_batch, c_post, c_deadline, c_qshut,
                 c_recv, c_event, c_seen, c_error, c_result, c_cancel, c_alloc,
                 c_early>>

\* ------------------------------------------------ the client's environment
\* now passes the call deadline (client.cpp:127)
EnvDeadline ==
  /\ c_pc = "waiting"
  /\ c_batch = "pending"
  /\ ~c_deadline
  /\ c_deadline' = TRUE
  /\ UNCHANGED <<c_pc, c_in, c_store, c_send_md, c_batch, c_post, c_qshut, c_recv,
                 c_event, c_seen, c_error, c_result, c_ret, c_cancel, c_alloc,
                 c_free, c_early, c_calls>>

\* the queue starts reporting shutdown to a poll
EnvQueueShutdown ==
  /\ c_pc = "waiting"
  /\ c_batch = "pending"
  /\ ~c_qshut
  /\ c_qshut' = TRUE
  /\ UNCHANGED <<c_pc, c_in, c_store, c_send_md, c_batch, c_post, c_deadline, c_recv,
                 c_event, c_seen, c_error, c_result, c_ret, c_cancel, c_alloc,
                 c_free, c_early, c_calls>>

\* the transport finishes the batch: it fills the receive slots the batch named
\* (client.cpp:163-175) and posts the completion for tag 1
TransportWrite(success, status, details, resp) ==
  /\ c_batch = "pending"
  /\ c_pc \in {"waiting", "draining"}
  /\ c_recv' = [status |-> status, details |-> details, response_bb |-> resp]
  /\ c_alloc' = LET a1 == IF resp.present THEN Plus(c_alloc, "response_bb", 1)
                          ELSE c_alloc
                    a2 == IF details # <<>> THEN Plus(a1, "details", 1) ELSE a1
                IN IF success
                   THEN PlusAll(a2, <<"md_recv_initial", "md_recv_trailing">>)
                   ELSE a2
  /\ c_batch' = "posted"
  /\ c_post' = success
  /\ UNCHANGED <<c_pc, c_in, c_store, c_send_md, c_deadline, c_qshut, c_event,
                 c_seen, c_error, c_result, c_ret, c_cancel, c_free, c_early,
                 c_calls>>

\* an arbitrary peer behind the channel
EnvComplete ==
  \E success \in BOOLEAN, status \in Codes, details \in Details,
     resp \in PeerResponses :
    TransportWrite(success, status, details, resp)

\* ================================================================ SERVER
VARIABLES
  s_pc,        \* position of robust_grpc_server_run
  s_dur,       \* r_server_duration_seconds
  s_elapsed,   \* now is past loop_deadline
  s_intr,      \* an R interrupt is pending
  s_qshut,     \* the completion queue reports shutdown
  s_grace,     \* the shutdown deadline of server.cpp:427 has passed
  s_exit,      \* why the loop set done
  s_phase,     \* the slot's state: AWAITING_CALL, READING_REQUEST, ...
  s_ops,       \* per tag: operations submitted whose completion is not yet posted
  s_evq,       \* completion events posted and not yet returned by a poll
  s_shutdown_event, \* the event the poll of server.cpp:430 returned
  s_call,      \* current_call: 0 is nullptr, else the handle
  s_method,    \* call_details.method
  s_req_bb,    \* client_request_payload_bb
  s_slots,     \* call_details and request_metadata_recv: init, filled or destroyed
  s_disp,      \* what the last read completion was dispatched on
  s_send,      \* the last send batch handed to grpc_call_start_batch
  s_accepted,  \* number of calls accepted so far (the newest handle)
  s_unref,     \* per call handle: number of grpc_call_unref calls
  s_alloc,     \* per resource kind: how many were created
  s_free,      \* per resource kind: how many were released
  s_hooklog,   \* the hook points reached, in order, with what call_r_hook did
  s_hooks,     \* r_hooks: per hook name, absent or what the R function does
  s_port,      \* the result of grpc_server_add_http2_port, 0 when nothing is bound
  s_faulted,   \* some handler has raised a fault in this run
  s_lost,      \* per-call resource kinds still held when their slot was recycled
  s_twice,     \* per-call resource kinds released more often than created
  s_cancel_all, \* number of grpc_server_cancel_all_calls calls
  s_cq         \* the library calls made on the server's completion queue, in order

svars == <<s_pc, s_dur, s_elapsed, s_intr, s_qshut, s_grace, s_exit, s_phase, s_ops,
           s_evq, s_shutdown_event, s_call, s_method, s_req_bb, s_slots, s_disp, s_send,
           s_accepted, s_unref, s_alloc, s_free, s_hooklog, s_faulted, s_lost, s_twice,
           s_cancel_all, s_hooks, s_port, s_cq>>

SRes == {"grpc", "server", "cq", "creds", "request_bb", "response_slice",
         "response_bb", "status_details"}

s_time == <<s_dur, s_elapsed, s_intr, s_qshut, s_grace>>

s_slot == <<s_call, s_method, s_req_bb, s_slots>>

s_hist == <<s_disp, s_send, s_faulted>>

s_res == <<s_unref, s_alloc, s_free, s_lost, s_twice>>

s_conf == <<s_hooks, s_port>>

\* the resources of one call, as opposed to those of the whole run
PerCall == {"request_bb", "response_slice", "response_bb", "status_details"}

Durations == {0, 1}

\* r_service_handlers: method path -> what the R closure does with the request
Registry ==
  [m \in {"/echo", "/rev", "/rcpp", "/std", "/unk"} |->
     CASE m = "/echo" -> "identity"
       [] m = "/rev" -> "reverse"
       [] m = "/rcpp" -> "raise Rcpp::exception"
       [] m = "/std" -> "raise std::exception"
       [] m = "/unk" -> "raise unknown"]

NoDispatch == [valid |-> FALSE, success |-> FALSE, bb |-> NullBB, method |-> "",
               thrown |-> "none", call |-> 0]

NoSend == [ops |-> <<>>, status |-> "UNKNOWN", details |-> <<>>, message |-> NullBB,
           error |-> FALSE, call |-> 0]

\* the tags of server.cpp:21-24
Tags == {"NEW_CALL", "READ", "SEND", "SHUTDOWN"}

NoOps == [t \in Tags |-> 0]

\* grpc_server_request_call, grpc_call_start_batch, grpc_server_shutdown_and_notify:
\* one more operation with this tag is outstanding
PostMutantRearmsAccept(ops, tag) ==
  [ops EXCEPT ![tag] = @ + 1, !["NEW_CALL"] = @ + 1]

Post(ops, tag) == [ops EXCEPT ![tag] = @ + 1]

Pending(ops, tag) == ops[tag] > 0

\* the transport posts the completion of one operation with this tag
Completed(ops, tag) == [ops EXCEPT ![tag] = @ - 1]

TimeoutEvent == [type |-> "QUEUE_TIMEOUT", tag |-> "NONE", success |-> FALSE]

ShutdownEvent == [type |-> "QUEUE_SHUTDOWN", tag |-> "NONE", success |-> FALSE]

Complete(tag, success) == [type |-> "OP_COMPLETE", tag |-> tag, success |-> success]

\* the hook names of server.cpp:114-169 and 423-468
HookNames == {"server_create", "queue_create", "bind", "server_start", "run",
              "shutdown", "stopped"}

InitServer ==
  /\ s_pc = "init"
  /\ s_dur = 0
  /\ s_elapsed = FALSE
  /\ s_intr = FALSE
  /\ s_qshut = FALSE
  /\ s_grace = FALSE
  /\ s_exit = "none"
  /\ s_phase = "NOT_STARTED"
  /\ s_ops = NoOps
  /\ s_evq = <<>>
  /\ s_shutdown_event = [type |-> "NONE", tag |-> "NONE", success |-> FALSE]
  /\ s_call = 0
  /\ s_method = ""
  /\ s_req_bb = NullBB
  /\ s_slots = "none"
  /\ s_disp = NoDispatch
  /\ s_send = NoSend
  /\ s_accepted = 0
  /\ s_unref = [h \in 1..MaxCalls |-> 0]
  /\ s_alloc = [r \in SRes |-> 0]
  /\ s_free = [r \in SRes |-> 0]
  /\ s_hooklog = <<>>
  /\ s_hooks = [n \in HookNames |-> "absent"]
  /\ s_port = 0
  /\ s_faulted = FALSE
  /\ s_lost = {}
  /\ s_twice = {}
  /\ s_cancel_all = 0
  /\ s_cq = <<>>

\* grpc_byte_buffer_to_rawvector (server.cpp:67-81)
grpc_byte_buffer_to_rawvector(buffer) ==
  IF ~buffer.present THEN <<>>
  ELSE [i \in 1..Len(buffer.bytes) |-> buffer.bytes[i]]

Reverse(seq) == [i \in 1..Len(seq) |-> seq[Len(seq) + 1 - i]]

\* r_handler_closure(request_raw_from_bb) (server.cpp:308): a value or a throw
Invoke(kind, raw) ==
  CASE kind = "identity" -> [thrown |-> "none", value |-> raw, what |-> ""]
    [] kind = "reverse" -> [thrown |-> "none", value |-> Reverse(raw), what |-> ""]
    [] kind = "raise Rcpp::exception" ->
         [thrown |-> "Rcpp::exception", value |-> <<>>, what |-> "R error"]
    [] kind = "raise std::exception" ->
         [thrown |-> "std::exception", value |-> <<>>, what |-> "bad_alloc"]
    [] kind = "raise unknown" ->
         [thrown |-> "unknown", value |-> <<>>, what |-> ""]

\* the try block of server.cpp:306-327
CatchMutantNoCatchAll(r) ==
  CASE r.thrown = "none" ->
         [caught |-> TRUE, status |-> "OK", details |-> <<"OK">>, response |-> r.value]
    [] r.thrown = "Rcpp::exception" ->
         [caught |-> TRUE, status |-> "INTERNAL",
          details |-> <<"Error in R handler: ", r.what>>, response |-> <<>>]
    [] r.thrown = "std::exception" ->
         [caught |-> TRUE, status |-> "INTERNAL",
          details |-> <<"System error in R handler: ", r.what>>, response |-> <<>>]
    [] OTHER ->
         [caught |-> FALSE, status |-> "INTERNAL", details |-> <<>>,
          response |-> <<>>]

TryHandler(r) ==
  CASE r.thrown = "none" ->
         [caught |-> TRUE, status |-> "OK", details |-> <<"OK">>, response |-> r.value]
    [] r.thrown = "Rcpp::exception" ->
         [caught |-> TRUE, status |-> "INTERNAL",
          details |-> <<"Error in R handler: ", r.what>>, response |-> <<>>]
    [] r.thrown = "std::exception" ->
         [caught |-> TRUE, status |-> "INTERNAL",
          details |-> <<"System error in R handler: ", r.what>>, response |-> <<>>]
    [] OTHER ->
         [caught |-> TRUE, status |-> "INTERNAL",
          details |-> <<"Unknown error during R handler execution.">>,
          response |-> <<>>]

\* server.cpp:266-339: status_to_send, status_details_cpp_str, response_raw_from_r
DispatchMutantLookupFirst(success, bb, method) ==
  LET miss == [caught |-> TRUE, thrown |-> "none", invoked |-> FALSE, response |-> <<>>]
  IN
  IF ~success THEN
    miss @@ [status |-> "CANCELLED",
             details |-> <<"Failed to receive client message or client cancelled.">>]
  ELSE IF method \notin DOMAIN Registry THEN
    miss @@ [status |-> "UNIMPLEMENTED",
             details |-> <<"Method not implemented or not found: ", method>>]
  ELSE IF ~bb.present THEN
    miss @@ [status |-> "INVALID_ARGUMENT",
             details |-> <<"Client did not send a message payload as expected for unary call.">>]
  ELSE
    LET r == Invoke(Registry[method], grpc_byte_buffer_to_rawvector(bb))
    IN TryHandler(r) @@ [thrown |-> r.thrown, invoked |-> TRUE]

Dispatch(success, bb, method) ==
  LET miss == [caught |-> TRUE, thrown |-> "none", invoked |-> FALSE, response |-> <<>>]
  IN
  IF ~success THEN
    miss @@ [status |-> "CANCELLED",
             details |-> <<"Failed to receive client message or client cancelled.">>]
  ELSE IF ~bb.present THEN
    miss @@ [status |-> "INVALID_ARGUMENT",
             details |-> <<"Client did not send a message payload as expected for unary call.">>]
  ELSE IF method \in DOMAIN Registry THEN
    LET r == Invoke(Registry[method], grpc_byte_buffer_to_rawvector(bb))
    IN TryHandler(r) @@ [thrown |-> r.thrown, invoked |-> TRUE]
  ELSE
    miss @@ [status |-> "UNIMPLEMENTED",
             details |-> <<"Method not implemented or not found: ", method>>]

\* server.cpp:341-376: the operations of the send batch
SendOpsMutantAlwaysMessage(status) ==
  <<"RECV_CLOSE_ON_SERVER", "SEND_MESSAGE", "SEND_STATUS_FROM_SERVER">>

SendOps(status) ==
  <<"RECV_CLOSE_ON_SERVER">>
  \o (IF status = "OK" THEN <<"SEND_MESSAGE">> ELSE <<>>)
  \o <<"SEND_STATUS_FROM_SERVER">>

\* what an entry of r_hooks does when called; "absent" is a name not in the list
HookKinds == {"absent", "returns", "raise Rcpp::exception", "raise std::exception",
              "raise unknown"}

\* an r_hooks list in which every hook is present and returns
AllHooksReturn == [n \in HookNames |-> "returns"]

\* r_hooks lists in which every hook is, in turn, returning, absent and faulting
HookConfigs ==
  { AllHooksReturn,
    [n \in HookNames |->
       CASE n \in {"server_create", "run", "stopped"} -> "absent"
         [] n \in {"queue_create", "shutdown"} -> "raise Rcpp::exception"
         [] n = "bind" -> "raise std::exception"
         [] OTHER -> "raise unknown"],
    [n \in HookNames |->
       CASE n \in {"server_create", "run"} -> "raise unknown"
         [] n \in {"queue_create", "shutdown"} -> "absent"
         [] n = "bind" -> "returns"
         [] n = "stopped" -> "raise std::exception"
         [] OTHER -> "absent"] }

\* Rcpp::List::create() and Rcpp::List::create(Named("port") = port)
empty_params == {}

bind_paramsMutantEmpty(port) == {}

bind_params(port) == {<<"port", port>>}

\* call_r_hook (server.cpp:35-62): the call is made only for a name in the list,
\* and whatever the R function throws is caught and logged
call_r_hookMutantNoCatchAll(hooks, hook_name, params_to_send) ==
  [name |-> hook_name, params |-> params_to_send,
   invoked |-> hooks[hook_name] # "absent",
   escaped |-> hooks[hook_name] = "raise unknown"]

call_r_hook(hooks, hook_name, params_to_send) ==
  IF hooks[hook_name] # "absent"
  THEN [name |-> hook_name, params |-> params_to_send, invoked |-> TRUE,
        escaped |-> ~(hooks[hook_name] \in {"returns", "raise Rcpp::exception",
                                            "raise std::exception",
                                            "raise unknown"})]
  ELSE [name |-> hook_name, params |-> params_to_send, invoked |-> FALSE,
        escaped |-> FALSE]

\* the hook points a stretch of the run reaches one after the other; an exception
\* that escapes call_r_hook ends the run there
RECURSIVE RunHooks(_, _, _)
RunHooks(log, hooks, points) ==
  IF points = <<>> THEN log
  ELSE LET e == call_r_hook(hooks, Head(points)[1], Head(points)[2])
       IN IF e.escaped THEN Append(log, e)
          ELSE RunHooks(Append(log, e), hooks, Tail(points))

Escaped(log) == log # <<>> /\ log[Len(log)].escaped

\* server.cpp:420-424: the loop is left; the shutdown hook runs and the server is
\* told to shut down and notify with TAG_SERVER_SHUTDOWN
LeaveLoopMutantKeepsServing(reason, ops) ==
  /\ s_pc' = "loop"
  /\ s_exit' = reason
  /\ s_ops' = ops
  /\ UNCHANGED <<s_phase, s_hooklog>>

LeaveLoop(reason, ops) ==
  LET log == RunHooks(s_hooklog, s_hooks, <<<<"shutdown", empty_params>>>>)
  IN /\ s_hooklog' = log
     /\ s_exit' = reason
     /\ IF Escaped(log)
        THEN /\ s_pc' = "crashed"
             /\ s_ops' = ops
             /\ UNCHANGED s_phase
        ELSE /\ s_pc' = "draining"
             /\ s_phase' = "SHUTTING_DOWN"
             /\ s_ops' = Post(ops, "SHUTDOWN")

StayInLoop(phase, ops) ==
  /\ s_pc' = "loop"
  /\ s_phase' = phase
  /\ s_ops' = ops
  /\ UNCHANGED <<s_exit, s_hooklog>>

\* grpc_call_unref(current_call): one more release of this handle
grpc_call_unrefMutantSkipped(unref, call) == unref

grpc_call_unref(unref, call) == Plus(unref, call, 1)

\* the slot of one call is given up: what the call still holds can no longer be
\* released, and the per-call counts start again for the next call
Recycle(alloc, free) ==
  /\ s_lost' = s_lost \cup {k \in PerCall : alloc[k] > free[k]}
  /\ s_twice' = s_twice \cup {k \in PerCall : free[k] > alloc[k]}
  /\ s_alloc' = [k \in SRes |-> IF k \in PerCall THEN 0 ELSE alloc[k]]
  /\ s_free' = [k \in SRes |-> IF k \in PerCall THEN 0 ELSE free[k]]

\* grpc_server_request_call(..., TAG_REQUEST_NEW_CALL) and the test of its result
\* (server.cpp:158-163, 222-227, 256-261, 406-411)
RequestCallMutantIgnoresError(ops) ==
  \E request_error \in BOOLEAN :
    IF request_error
    THEN StayInLoop("AWAITING_CALL", ops)
    ELSE StayInLoop("AWAITING_CALL", Post(ops, "NEW_CALL"))

RequestCall(ops) ==
  \E request_error \in BOOLEAN :
    IF request_error
    THEN LeaveLoop("request_failed", ops)
    ELSE StayInLoop("AWAITING_CALL", Post(ops, "NEW_CALL"))

StartFailures == {"none", "server", "cq", "bind", "request"}

\* what grpc_server_add_http2_port can return: 0 is a failed bind
Ports == {0, 50051}

\* the hook points of server.cpp:114-169, in the order the code reaches them
StartupPoints(port) ==
  << <<"server_create", empty_params>>, <<"queue_create", empty_params>>,
     <<"bind", bind_params(port)>>, <<"server_start", empty_params>>,
     <<"run", empty_params>> >>

\* server.cpp:90-169: from entry to the first pass of the loop, for a run started
\* with one of the given r_hooks lists
ServerStartWith(configs) ==
  /\ s_pc = "init"
  /\ \E dur \in Durations, fail \in StartFailures, hooks \in configs,
        port \in Ports :
       LET points == StartupPoints(port)
           reached == CASE fail = "server" -> 0
                        [] fail = "cq" -> 1
                        [] fail = "bind" -> 3
                        [] OTHER -> 5
           log == RunHooks(<<>>, hooks, SubSeq(points, 1, reached))
           log2 == IF fail = "request" /\ ~Escaped(log)
                   THEN RunHooks(log, hooks, <<<<"shutdown", empty_params>>>>)
                   ELSE log
       IN
       /\ (port = 0) <=> (fail = "bind")
       /\ s_dur' = dur
       /\ s_hooks' = hooks
       /\ s_port' = IF fail \in {"server", "cq"} THEN 0 ELSE port
       /\ s_hooklog' = log2
       /\ s_cq' = CASE fail \in {"server", "cq"} -> <<>>
                    [] fail = "bind" ->
                         <<Call("grpc_completion_queue_create_for_next", <<>>),
                           Call("grpc_completion_queue_destroy", <<>>)>>
                    [] OTHER -> <<Call("grpc_completion_queue_create_for_next", <<>>)>>
       /\ CASE fail = "server" ->
                 /\ s_alloc' = Plus(s_alloc, "grpc", 1)
                 /\ s_free' = Plus(s_free, "grpc", 1)
                 /\ s_pc' = "failed"
                 /\ UNCHANGED <<s_ops, s_phase, s_exit, s_slots>>
            [] fail = "cq" ->
                 /\ s_alloc' = PlusAll(s_alloc, <<"grpc", "server">>)
                 /\ s_free' = PlusAll(s_free, <<"server", "grpc">>)
                 /\ s_pc' = IF Escaped(log2) THEN "crashed" ELSE "failed"
                 /\ UNCHANGED <<s_ops, s_phase, s_exit, s_slots>>
            [] fail = "bind" ->
                 /\ s_alloc' = PlusAll(s_alloc, <<"grpc", "server", "cq", "creds">>)
                 /\ s_free' = PlusAll(s_free, <<"creds", "cq", "server", "grpc">>)
                 /\ s_pc' = IF Escaped(log2) THEN "crashed" ELSE "failed"
                 /\ UNCHANGED <<s_ops, s_phase, s_exit, s_slots>>
            [] fail = "request" ->
                 /\ s_alloc' = PlusAll(s_alloc, <<"grpc", "server", "cq", "creds">>)
                 /\ s_free' = Plus(s_free, "creds", 1)
                 /\ s_slots' = "init"
                 /\ s_exit' = "request_failed"
                 /\ IF Escaped(log2)
                    THEN /\ s_pc' = "crashed"
                         /\ UNCHANGED <<s_phase, s_ops>>
                    ELSE /\ s_pc' = "draining"
                         /\ s_phase' = "SHUTTING_DOWN"
                         /\ s_ops' = Post(s_ops, "SHUTDOWN")
            [] fail = "none" ->
                 /\ s_alloc' = PlusAll(s_alloc, <<"grpc", "server", "cq", "creds">>)
                 /\ s_free' = Plus(s_free, "creds", 1)
                 /\ s_slots' = "init"
                 /\ s_ops' = Post(s_ops, "NEW_CALL")
                 /\ IF Escaped(log2)
                    THEN /\ s_pc' = "crashed"
                         /\ UNCHANGED s_phase
                    ELSE /\ s_pc' = "loop"
                         /\ s_phase' = "AWAITING_CALL"
                 /\ UNCHANGED s_exit
  /\ UNCHANGED <<s_elapsed, s_intr, s_qshut, s_grace, s_evq, s_shutdown_event,
                 s_call, s_method, s_req_bb, s_hist, s_accepted, s_unref, s_lost,
                 s_twice, s_cancel_all>>

ServerStart == ServerStartWith({AllHooksReturn})

\* grpc_completion_queue_next in the loop (server.cpp:186-191): a posted event, else
\* queue shutdown, else the timeout of the one-second slice
ServerPoll ==
  IF s_evq # <<>> THEN Head(s_evq)
  ELSE IF s_qshut THEN ShutdownEvent
  ELSE TimeoutEvent

\* server.cpp:171-177
ServerInterrupted ==
  /\ s_pc = "loop"
  /\ s_intr
  /\ s_intr' = FALSE
  /\ LeaveLoop("interrupt", s_ops)
  /\ UNCHANGED <<s_dur, s_elapsed, s_qshut, s_grace, s_evq, s_shutdown_event, s_slot, s_hist,
                 s_accepted, s_res, s_cancel_all, s_conf, s_cq>>

\* the test of server.cpp:179: now is past loop_deadline and the duration is positive
DurationExpiredMutantNoZeroTest == s_elapsed

DurationExpired == s_elapsed /\ s_dur > 0

\* server.cpp:179-183
ServerDurationReached ==
  /\ s_pc = "loop"
  /\ ~s_intr
  /\ DurationExpired
  /\ LeaveLoop("duration", s_ops)
  /\ UNCHANGED <<s_time, s_evq, s_shutdown_event, s_slot, s_hist, s_accepted, s_res,
                 s_cancel_all, s_conf, s_cq>>

\* server.cpp:200-203
ServerOnTimeout ==
  /\ s_pc = "loop"
  /\ ServerPoll.type = "QUEUE_TIMEOUT"
  /\ UNCHANGED svars

\* server.cpp:211-215
ServerOnQueueShutdown ==
  /\ s_pc = "loop"
  /\ ServerPoll.type = "QUEUE_SHUTDOWN"
  /\ LeaveLoop("queue_shutdown", s_ops)
  /\ UNCHANGED <<s_time, s_evq, s_shutdown_event, s_slot, s_hist, s_accepted, s_res, s_cancel_all, s_conf, s_cq>>

\* server.cpp:218-263: the completion of the accept request
ServerOnNewCall ==
  /\ s_pc = "loop"
  /\ ServerPoll.type = "OP_COMPLETE" /\ ServerPoll.tag = "NEW_CALL"
  /\ s_evq' = Tail(s_evq)
  /\ IF ~ServerPoll.success
     THEN /\ RequestCall(s_ops)
          /\ UNCHANGED <<s_slot, s_res>>
     ELSE \E error_read \in BOOLEAN :
            IF error_read
            THEN /\ s_slots' = "destroyed"
                 /\ s_method' = ""
                 /\ s_unref' = grpc_call_unref(s_unref, s_call)
                 /\ s_call' = 0
                 /\ Recycle(s_alloc, s_free)
                 /\ RequestCall(s_ops)
                 /\ UNCHANGED s_req_bb
            ELSE /\ StayInLoop("READING_REQUEST", Post(s_ops, "READ"))
                 /\ UNCHANGED <<s_slot, s_res>>
  /\ UNCHANGED <<s_time, s_shutdown_event, s_hist, s_accepted, s_cancel_all, s_conf, s_cq>>

\* server.cpp:379-391: what is outstanding after grpc_call_start_batch for the send
\* batch; a refused batch leaves nothing outstanding
SubmitSendMutantReposts(ops, error_send) ==
  IF error_send THEN Post(ops, "NEW_CALL") ELSE Post(ops, "SEND")

SubmitSend(ops, error_send) ==
  IF error_send THEN ops ELSE Post(ops, "SEND")

\* server.cpp:273-339: what each dispatch branch does with client_request_payload_bb:
\* the slot afterwards and the number of grpc_byte_buffer_destroy calls made
TakeRequestMutantDanglingOnMiss(success, bb, method) ==
  IF ~bb.present THEN [slot |-> bb, destroyed |-> 0]
  ELSE IF success /\ method \notin DOMAIN Registry
  THEN [slot |-> bb, destroyed |-> 1]
  ELSE [slot |-> NullBB, destroyed |-> 1]

TakeRequest(success, bb, method) ==
  IF ~success THEN
    IF bb.present THEN [slot |-> NullBB, destroyed |-> 1]
    ELSE [slot |-> bb, destroyed |-> 0]
  ELSE IF ~bb.present THEN [slot |-> bb, destroyed |-> 0]
  ELSE IF method \in DOMAIN Registry THEN [slot |-> NullBB, destroyed |-> 1]
  ELSE [slot |-> NullBB, destroyed |-> 1]

\* server.cpp:264-392: the completion of the read batch, the dispatch to the R
\* handler and the submission of the send batch
ServerOnRead ==
  /\ s_pc = "loop"
  /\ ServerPoll.type = "OP_COMPLETE" /\ ServerPoll.tag = "READ"
  /\ s_evq' = Tail(s_evq)
  /\ LET d == Dispatch(ServerPoll.success, s_req_bb, s_method)
         ok == d.status = "OK"
         sliced == ok /\ Len(d.response) > 0
     IN
     /\ s_disp' = [valid |-> TRUE, success |-> ServerPoll.success, bb |-> s_req_bb,
                   method |-> s_method, thrown |-> d.thrown, call |-> s_call]
     /\ s_faulted' = (s_faulted \/ d.thrown # "none")
     /\ s_req_bb' = TakeRequest(ServerPoll.success, s_req_bb, s_method).slot
     /\ IF ~d.caught
        THEN /\ s_pc' = "crashed"
             /\ s_free' = Plus(s_free, "request_bb",
                               TakeRequest(ServerPoll.success, s_req_bb,
                                           s_method).destroyed)
             /\ UNCHANGED <<s_send, s_alloc, s_exit, s_phase, s_ops, s_hooklog>>
        ELSE \E error_send \in BOOLEAN :
               LET a1 == IF ok THEN Plus(s_alloc, "response_bb", 1) ELSE s_alloc
                   a2 == IF sliced THEN Plus(a1, "response_slice", 1) ELSE a1
                   f1 == Plus(s_free, "request_bb",
                              TakeRequest(ServerPoll.success, s_req_bb,
                                          s_method).destroyed)
                   f2 == IF sliced THEN Plus(f1, "response_slice", 1) ELSE f1
                   f3 == Plus(f2, "status_details", 1)
               IN
               /\ s_send' = [ops |-> SendOps(d.status), status |-> d.status,
                             details |-> d.details,
                             message |-> IF ok THEN BB(d.response) ELSE NullBB,
                             error |-> error_send, call |-> s_call]
               /\ s_alloc' = Plus(a2, "status_details", 1)
               /\ s_free' = IF error_send /\ ok THEN Plus(f3, "response_bb", 1)
                            ELSE f3
               /\ StayInLoop("SENDING_RESPONSE", SubmitSend(s_ops, error_send))
  /\ UNCHANGED <<s_time, s_shutdown_event, s_call, s_method, s_slots, s_accepted,
                 s_unref, s_lost, s_twice, s_cancel_all, s_conf, s_cq>>

\* server.cpp:394-411: the completion of the send batch
ServerOnSent ==
  /\ s_pc = "loop"
  /\ ServerPoll.type = "OP_COMPLETE" /\ ServerPoll.tag = "SEND"
  /\ s_evq' = Tail(s_evq)
  /\ s_unref' = grpc_call_unref(s_unref, s_call)
  /\ s_call' = 0
  /\ s_slots' = "init"
  /\ s_method' = ""
  /\ s_disp' = NoDispatch
  /\ s_send' = NoSend
  /\ Recycle(s_alloc, s_free)
  /\ RequestCall(s_ops)
  /\ UNCHANGED <<s_time, s_shutdown_event, s_req_bb, s_faulted, s_accepted,
                 s_cancel_all, s_conf, s_cq>>

\* grpc_completion_queue_next(cq, shutdown_deadline) (server.cpp:430)
DrainPoll ==
  IF s_evq # <<>> THEN {Head(s_evq)}
  ELSE {ShutdownEvent : x \in {s_qshut} \ {FALSE}}
       \cup {TimeoutEvent : x \in {s_grace} \ {FALSE}}

\* the condition of the do-while at server.cpp:431: poll again after this event
KeepDrainingMutantIgnoresTimeout(ev) ==
  /\ ~(ev.type = "OP_COMPLETE" /\ ev.tag = "SHUTDOWN")
  /\ ev.type # "QUEUE_SHUTDOWN"

KeepDraining(ev) ==
  /\ ev.type # "OP_COMPLETE"
  /\ ev.tag # "SHUTDOWN"
  /\ ev.type # "QUEUE_TIMEOUT"
  /\ ev.type # "QUEUE_SHUTDOWN"

\* server.cpp:433-440: cancel-all follows the wait whatever event ended it
CancelAllMutantOnlyAfterGrace(ev) == ev.type = "QUEUE_TIMEOUT"

CancelAll(ev) == TRUE

\* server.cpp:429-470: one poll for the shutdown notification and, when the do-while
\* ends, the teardown
ServerStop ==
  /\ s_pc = "draining"
  /\ \E ev \in DrainPoll :
       /\ s_shutdown_event' = ev
       /\ s_evq' = IF s_evq # <<>> THEN Tail(s_evq) ELSE s_evq
       /\ IF KeepDraining(ev)
          THEN UNCHANGED <<s_cancel_all, s_unref, s_slots, s_res, s_hooklog, s_pc,
                           s_cq>>
          ELSE /\ s_cq' = s_cq \o DrainAndDestroy
               /\ s_cancel_all' = IF CancelAll(ev) THEN s_cancel_all + 1
                                  ELSE s_cancel_all
               /\ IF s_call # 0
                  THEN /\ s_unref' = grpc_call_unref(s_unref, s_call)
                       /\ s_slots' = "destroyed"
                       /\ Recycle(s_alloc,
                                  PlusAll(IF s_req_bb.present
                                          THEN Plus(s_free, "request_bb", 1)
                                          ELSE s_free,
                                          <<"server", "cq", "grpc">>))
                  ELSE /\ Recycle(s_alloc, PlusAll(s_free, <<"server", "cq", "grpc">>))
                       /\ UNCHANGED <<s_unref, s_slots>>
               /\ LET log == RunHooks(s_hooklog, s_hooks,
                                       <<<<"stopped", empty_params>>>>)
                  IN /\ s_hooklog' = log
                     /\ s_pc' = IF Escaped(log) THEN "crashed" ELSE "stopped"
  /\ UNCHANGED <<s_time, s_exit, s_phase, s_ops, s_call, s_method, s_req_bb, s_hist,
                 s_accepted, s_conf>>

\* ------------------------------------------------ the server's environment
\* a peer's call arrives: the accept request completes and fills its slots
AcceptDone(m) ==
  /\ s_pc = "loop"
  /\ Pending(s_ops, "NEW_CALL")
  /\ s_accepted < MaxCalls
  /\ s_method' = m
  /\ s_accepted' = s_accepted + 1
  /\ s_call' = s_accepted + 1
  /\ s_slots' = "filled"
  /\ s_ops' = Completed(s_ops, "NEW_CALL")
  /\ s_evq' = Append(s_evq, Complete("NEW_CALL", TRUE))
  /\ UNCHANGED <<s_pc, s_exit, s_phase, s_hooklog, s_time, s_shutdown_event, s_req_bb, s_hist,
                 s_res, s_cancel_all, s_conf, s_cq>>

EnvAccept == \E m \in Methods : AcceptDone(m)

\* the accept request completes without a call
EnvAcceptFail ==
  /\ s_pc \in {"loop", "draining"}
  /\ Pending(s_ops, "NEW_CALL")
  /\ s_ops' = Completed(s_ops, "NEW_CALL")
  /\ s_evq' = Append(s_evq, Complete("NEW_CALL", FALSE))
  /\ UNCHANGED <<s_pc, s_exit, s_phase, s_hooklog, s_time, s_shutdown_event, s_slot, s_hist,
                 s_accepted, s_res, s_cancel_all, s_conf, s_cq>>

\* the transport finishes the read batch and fills client_request_payload_bb
ReadDone(success, bb) ==
  /\ s_pc \in {"loop", "draining"}
  /\ Pending(s_ops, "READ")
  /\ s_req_bb' = bb
  /\ s_alloc' = IF bb.present THEN Plus(s_alloc, "request_bb", 1) ELSE s_alloc
  /\ s_ops' = Completed(s_ops, "READ")
  /\ s_evq' = Append(s_evq, Complete("READ", success))
  /\ UNCHANGED <<s_pc, s_exit, s_phase, s_hooklog, s_time, s_shutdown_event, s_call,
                 s_method, s_slots, s_hist, s_accepted, s_unref, s_free, s_lost,
                 s_twice, s_cancel_all, s_conf, s_cq>>

\* what a failed read batch can leave in client_request_payload_bb
FailedReadBuffers == {NullBB, BB(<<>>)}

\* a peer whose message, when it sends one, is among the given buffers
EnvReadOf(buffers) ==
  \/ \E bb \in buffers : ReadDone(TRUE, bb)
  \/ \E bb \in FailedReadBuffers : ReadDone(FALSE, bb)

\* an arbitrary peer: a message, no message, or a failed read
EnvRead == EnvReadOf(ByteBuffers)

\* the transport finishes the send batch
SendDone(success) ==
  /\ s_pc \in {"loop", "draining"}
  /\ Pending(s_ops, "SEND")
  /\ s_ops' = Completed(s_ops, "SEND")
  /\ s_evq' = Append(s_evq, Complete("SEND", success))
  /\ UNCHANGED <<s_pc, s_exit, s_phase, s_hooklog, s_time, s_shutdown_event, s_slot, s_hist,
                 s_accepted, s_res, s_cancel_all, s_conf, s_cq>>

EnvSend == \E success \in BOOLEAN : SendDone(success)

\* the server acknowledges the shutdown with TAG_SERVER_SHUTDOWN
EnvShutdownAck ==
  /\ s_pc = "draining"
  /\ Pending(s_ops, "SHUTDOWN")
  /\ s_ops' = Completed(s_ops, "SHUTDOWN")
  /\ s_evq' = Append(s_evq, Complete("SHUTDOWN", TRUE))
  /\ UNCHANGED <<s_pc, s_exit, s_phase, s_hooklog, s_time, s_shutdown_event, s_slot, s_hist,
                 s_accepted, s_res, s_cancel_all, s_conf, s_cq>>

\* now passes loop_deadline (server.cpp:166)
EnvElapsed ==
  /\ s_pc = "loop"
  /\ ~s_elapsed
  /\ s_elapsed' = TRUE
  /\ UNCHANGED <<s_pc, s_exit, s_phase, s_ops, s_hooklog, s_dur, s_intr, s_qshut,
                 s_grace, s_evq, s_shutdown_event, s_slot, s_hist, s_accepted, s_res,
                 s_cancel_all, s_conf, s_cq>>

\* the user interrupts R
EnvInterrupt ==
  /\ s_pc = "loop"
  /\ ~s_intr
  /\ s_intr' = TRUE
  /\ UNCHANGED <<s_pc, s_exit, s_phase, s_ops, s_hooklog, s_dur, s_elapsed, s_qshut,
                 s_grace, s_evq, s_shutdown_event, s_slot, s_hist, s_accepted, s_res,
                 s_cancel_all, s_conf, s_cq>>

\* the queue starts reporting shutdown
EnvServerQueueShutdown ==
  /\ s_pc \in {"loop", "draining"}
  /\ ~s_qshut
  /\ s_qshut' = TRUE
  /\ UNCHANGED <<s_pc, s_exit, s_phase, s_ops, s_hooklog, s_dur, s_elapsed, s_intr,
                 s_grace, s_evq, s_shutdown_event, s_slot, s_hist, s_accepted, s_res,
                 s_cancel_all, s_conf, s_cq>>

\* now passes shutdown_deadline (server.cpp:427)
EnvGrace ==
  /\ s_pc = "draining"
  /\ ~s_grace
  /\ s_grace' = TRUE
  /\ UNCHANGED <<s_pc, s_exit, s_phase, s_ops, s_hooklog, s_dur, s_elapsed, s_intr,
                 s_qshut, s_evq, s_shutdown_event, s_slot, s_hist, s_accepted, s_res,
                 s_cancel_all, s_conf, s_cq>>

\* ======================================================== THE GLOBAL LOG LEVEL
\* enum RGRPC_LOG_LEVEL (common.h:6-13)
RGRPC_LOG_LEVEL_NONE == 0

RGRPC_LOG_LEVEL_ERROR == 1

RGRPC_LOG_LEVEL_WARN == 2

RGRPC_LOG_LEVEL_INFO == 3

RGRPC_LOG_LEVEL_DEBUG == 4

RGRPC_LOG_LEVEL_TRACE == 5

\* the enumerators of RGRPC_LOG_LEVEL
RGRPC_LOG_LEVEL ==
  {RGRPC_LOG_LEVEL_NONE, RGRPC_LOG_LEVEL_ERROR, RGRPC_LOG_LEVEL_WARN,
   RGRPC_LOG_LEVEL_INFO, RGRPC_LOG_LEVEL_DEBUG, RGRPC_LOG_LEVEL_TRACE}

\* how many calls of the two logging functions a run makes
MaxLogCalls == 3

\* the arguments given to rgrpc_set_log_level: every level and one value past
\* each end of the range
LogArgs == (RGRPC_LOG_LEVEL_NONE - 1)..(RGRPC_LOG_LEVEL_TRACE + 1)

VARIABLES
  rgrpc_global_log_level,  \* the global of logging.cpp:8
  log_calls                \* the calls made so far: function, argument, outcome

gvars == <<rgrpc_global_log_level, log_calls>>

\* logging.cpp:8
InitLog ==
  /\ rgrpc_global_log_level = RGRPC_LOG_LEVEL_INFO
  /\ log_calls = <<>>

\* one call of a logging function: what it was given and what it gave back, the
\* value returned or the kind of message emitted
LogCall(fn, arg, out) == [fn |-> fn, arg |-> arg, out |-> out]

\* the test of logging.cpp:12
LevelInRangeMutantNoUpperBound(level) == level >= RGRPC_LOG_LEVEL_NONE

LevelInRange(level) ==
  level >= RGRPC_LOG_LEVEL_NONE /\ level <= RGRPC_LOG_LEVEL_TRACE

\* rgrpc_set_log_level (logging.cpp:11-23)
rgrpc_set_log_level(level) ==
  /\ Len(log_calls) < MaxLogCalls
  /\ IF LevelInRange(level)
     THEN /\ rgrpc_global_log_level' = level
          /\ log_calls' = Append(log_calls,
                                 LogCall("rgrpc_set_log_level", level, "Rcout"))
     ELSE /\ UNCHANGED rgrpc_global_log_level
          /\ log_calls' = Append(log_calls,
                                 LogCall("rgrpc_set_log_level", level, "warning"))

\* rgrpc_get_log_level (logging.cpp:27-29)
rgrpc_get_log_level ==
  /\ Len(log_calls) < MaxLogCalls
  /\ log_calls' = Append(log_calls, LogCall("rgrpc_get_log_level", <<>>,
                                            rgrpc_global_log_level))
  /\ UNCHANGED rgrpc_global_log_level

\* ============================================== CLIENT AND SERVER TOGETHER
VARIABLES
  l_call,      \* the server's handle of the client's call, 0 before it arrives
  l_msg,       \* the client's message has reached the server's read batch
  l_resp,      \* the send batch whose completion the server was given
  l_answered   \* who completed the client's batch: no one yet, server or library

lvars == <<l_call, l_msg, l_resp, l_answered>>

InitLink ==
  /\ l_call = 0
  /\ l_msg = FALSE
  /\ l_resp = NoSend
  /\ l_answered = "no"

\* the client's call reaches the listening server
LinkCall ==
  /\ c_batch = "pending"
  /\ l_call = 0
  /\ AcceptDone(c_in.method)
  /\ l_call' = s_accepted + 1
  /\ UNCHANGED <<gvars, cvars, l_msg, l_resp, l_answered>>

\* the client's message (request_bb, client.cpp:151-157) completes the read batch
LinkMessage ==
  /\ l_call # 0 /\ s_call = l_call
  /\ ~l_msg
  /\ ReadDone(TRUE, BB(c_in.payload))
  /\ l_msg' = TRUE
  /\ UNCHANGED <<gvars, cvars, l_call, l_resp, l_answered>>

\* the server's send batch is written to the wire and completes
LinkSent ==
  /\ l_msg /\ s_send.call = l_call
  /\ SendDone(TRUE)
  /\ l_resp' = s_send
  /\ UNCHANGED <<gvars, cvars, l_call, l_msg, l_answered>>

\* the response and the status reach the client and complete its batch
LinkResponse ==
  /\ l_resp.call # 0
  /\ l_answered = "no"
  /\ TransportWrite(TRUE, l_resp.status, l_resp.details, l_resp.message)
  /\ l_answered' = "server"
  /\ UNCHANGED <<gvars, svars, l_call, l_msg, l_resp>>

\* the call is cancelled (client.cpp:236, 283) or its deadline expires unanswered:
\* the library completes the batch itself
LinkAbort ==
  /\ l_answered = "no"
  /\ c_pc = "draining" \/ c_deadline
  /\ \E status \in {"CANCELLED", "DEADLINE_EXCEEDED"} :
       TransportWrite(TRUE, status, <<"call ended by the library">>, NullBB)
  /\ l_answered' = "library"
  /\ UNCHANGED <<gvars, svars, l_call, l_msg, l_resp>>

vars == <<cvars, svars, lvars, gvars>>

Init == InitClient /\ InitServer /\ InitLink /\ InitLog

\* ---------------------------------------- the server loop and its environment
NextServer ==
  \/ ServerStart /\ UNCHANGED <<cvars, lvars, gvars>>
  \/ ServerInterrupted /\ UNCHANGED <<cvars, lvars, gvars>>
  \/ ServerDurationReached /\ UNCHANGED <<cvars, lvars, gvars>>
  \/ ServerOnTimeout /\ UNCHANGED <<cvars, lvars, gvars>>
  \/ ServerOnQueueShutdown /\ UNCHANGED <<cvars, lvars, gvars>>
  \/ ServerOnNewCall /\ UNCHANGED <<cvars, lvars, gvars>>
  \/ ServerOnRead /\ UNCHANGED <<cvars, lvars, gvars>>
  \/ ServerOnSent /\ UNCHANGED <<cvars, lvars, gvars>>
  \/ ServerStop /\ UNCHANGED <<cvars, lvars, gvars>>
  \/ EnvAccept /\ UNCHANGED <<cvars, lvars, gvars>>
  \/ EnvAcceptFail /\ UNCHANGED <<cvars, lvars, gvars>>
  \/ EnvRead /\ UNCHANGED <<cvars, lvars, gvars>>
  \/ EnvSend /\ UNCHANGED <<cvars, lvars, gvars>>
  \/ EnvShutdownAck /\ UNCHANGED <<cvars, lvars, gvars>>
  \/ EnvElapsed /\ UNCHANGED <<cvars, lvars, gvars>>
  \/ EnvInterrupt /\ UNCHANGED <<cvars, lvars, gvars>>
  \/ EnvServerQueueShutdown /\ UNCHANGED <<cvars, lvars, gvars>>
  \/ EnvGrace /\ UNCHANGED <<cvars, lvars, gvars>>

SpecServer == Init /\ [][NextServer]_vars

\* ------------------------- the server with its hooks returning, absent or faulting
\* the methods the calls of this specification carry
HookRunMethods == {"/echo", "/unk"}

NextHooks ==
  \/ ServerStartWith(HookConfigs) /\ UNCHANGED <<cvars, lvars, gvars>>
  \/ ServerInterrupted /\ UNCHANGED <<cvars, lvars, gvars>>
  \/ ServerDurationReached /\ UNCHANGED <<cvars, lvars, gvars>>
  \/ ServerOnTimeout /\ UNCHANGED <<cvars, lvars, gvars>>
  \/ ServerOnQueueShutdown /\ UNCHANGED <<cvars, lvars, gvars>>
  \/ ServerOnNewCall /\ UNCHANGED <<cvars, lvars, gvars>>
  \/ ServerOnRead /\ UNCHANGED <<cvars, lvars, gvars>>
  \/ ServerOnSent /\ UNCHANGED <<cvars, lvars, gvars>>
  \/ ServerStop /\ UNCHANGED <<cvars, lvars, gvars>>
  \/ (\E m \in HookRunMethods : AcceptDone(m)) /\ UNCHANGED <<cvars, lvars, gvars>>
  \/ EnvAcceptFail /\ UNCHANGED <<cvars, lvars, gvars>>
  \/ EnvRead /\ UNCHANGED <<cvars, lvars, gvars>>
  \/ EnvSend /\ UNCHANGED <<cvars, lvars, gvars>>
  \/ EnvShutdownAck /\ UNCHANGED <<cvars, lvars, gvars>>
  \/ EnvElapsed /\ UNCHANGED <<cvars, lvars, gvars>>
  \/ EnvInterrupt /\ UNCHANGED <<cvars, lvars, gvars>>
  \/ EnvServerQueueShutdown /\ UNCHANGED <<cvars, lvars, gvars>>
  \/ EnvGrace /\ UNCHANGED <<cvars, lvars, gvars>>

SpecHooks == Init /\ [][NextHooks]_vars

\* ------------------------------------- the client call and an arbitrary peer
NextClient ==
  \/ ClientStart /\ UNCHANGED <<svars, lvars, gvars>>
  \/ ClientNext /\ UNCHANGED <<svars, lvars, gvars>>
  \/ ClientFinish /\ UNCHANGED <<svars, lvars, gvars>>
  \/ EnvDeadline /\ UNCHANGED <<svars, lvars, gvars>>
  \/ EnvQueueShutdown /\ UNCHANGED <<svars, lvars, gvars>>
  \/ EnvComplete /\ UNCHANGED <<svars, lvars, gvars>>

SpecClient == Init /\ [][NextClient]_vars

\* the client call, scheduled fairly: the poll of client.cpp:187 is a blocking call
\* that returns as soon as it has an event to return, and the function goes on from
\* there; the peer and the clock are not forced
FairSpecClient ==
  /\ SpecClient
  /\ WF_vars(ClientNext /\ UNCHANGED <<svars, lvars, gvars>>)
  /\ WF_vars(ClientFinish /\ UNCHANGED <<svars, lvars, gvars>>)

\* ------------------------------ one client call against the running server
NextE2E ==
  \/ ClientStart /\ UNCHANGED <<svars, lvars, gvars>>
  \/ ClientNext /\ UNCHANGED <<svars, lvars, gvars>>
  \/ ClientFinish /\ UNCHANGED <<svars, lvars, gvars>>
  \/ EnvDeadline /\ UNCHANGED <<svars, lvars, gvars>>
  \/ ServerStart /\ UNCHANGED <<cvars, lvars, gvars>>
  \/ ServerOnTimeout /\ UNCHANGED <<cvars, lvars, gvars>>
  \/ ServerOnNewCall /\ UNCHANGED <<cvars, lvars, gvars>>
  \/ ServerOnRead /\ UNCHANGED <<cvars, lvars, gvars>>
  \/ ServerOnSent /\ UNCHANGED <<cvars, lvars, gvars>>
  \/ ServerStop /\ UNCHANGED <<cvars, lvars, gvars>>
  \/ EnvAcceptFail /\ UNCHANGED <<cvars, lvars, gvars>>
  \/ EnvShutdownAck /\ UNCHANGED <<cvars, lvars, gvars>>
  \/ LinkCall
  \/ LinkMessage
  \/ LinkSent
  \/ LinkResponse
  \/ LinkAbort

SpecE2E == Init /\ [][NextE2E]_vars

\* ------------------------------------------- the server loop, scheduled fairly
\* the requests of the fairly scheduled runs: absent, or an empty message
FairRunBuffers == {NullBB, BB(<<>>)}

\* the server loop and its environment, the calls carrying one of two methods and
\* one of two requests
NextFairServer ==
  \/ ServerStart /\ UNCHANGED <<cvars, lvars, gvars>>
  \/ ServerInterrupted /\ UNCHANGED <<cvars, lvars, gvars>>
  \/ ServerDurationReached /\ UNCHANGED <<cvars, lvars, gvars>>
  \/ ServerOnTimeout /\ UNCHANGED <<cvars, lvars, gvars>>
  \/ ServerOnQueueShutdown /\ UNCHANGED <<cvars, lvars, gvars>>
  \/ ServerOnNewCall /\ UNCHANGED <<cvars, lvars, gvars>>
  \/ ServerOnRead /\ UNCHANGED <<cvars, lvars, gvars>>
  \/ ServerOnSent /\ UNCHANGED <<cvars, lvars, gvars>>
  \/ ServerStop /\ UNCHANGED <<cvars, lvars, gvars>>
  \/ (\E m \in HookRunMethods : AcceptDone(m)) /\ UNCHANGED <<cvars, lvars, gvars>>
  \/ EnvAcceptFail /\ UNCHANGED <<cvars, lvars, gvars>>
  \/ EnvReadOf(FairRunBuffers) /\ UNCHANGED <<cvars, lvars, gvars>>
  \/ EnvSend /\ UNCHANGED <<cvars, lvars, gvars>>
  \/ EnvShutdownAck /\ UNCHANGED <<cvars, lvars, gvars>>
  \/ EnvElapsed /\ UNCHANGED <<cvars, lvars, gvars>>
  \/ EnvInterrupt /\ UNCHANGED <<cvars, lvars, gvars>>
  \/ EnvServerQueueShutdown /\ UNCHANGED <<cvars, lvars, gvars>>
  \/ EnvGrace /\ UNCHANGED <<cvars, lvars, gvars>>

\* the loop polls again after every pass, and the transport completes every batch
\* it accepted; time passes its deadlines; calls, interrupts and the shutdown
\* acknowledgment are not forced. The loop blocks in its poll, so a shut-down
\* queue that is empty again and again does deliver its shutdown event
FairSpecServer ==
  /\ Init /\ [][NextFairServer]_vars
  /\ WF_vars(ServerOnNewCall /\ UNCHANGED <<cvars, lvars, gvars>>)
  /\ WF_vars(ServerOnRead /\ UNCHANGED <<cvars, lvars, gvars>>)
  /\ WF_vars(ServerOnSent /\ UNCHANGED <<cvars, lvars, gvars>>)
  /\ WF_vars(EnvReadOf(FairRunBuffers) /\ UNCHANGED <<cvars, lvars, gvars>>)
  /\ WF_vars(EnvSend /\ UNCHANGED <<cvars, lvars, gvars>>)
  /\ WF_vars(ServerInterrupted /\ UNCHANGED <<cvars, lvars, gvars>>)
  /\ WF_vars(ServerDurationReached /\ UNCHANGED <<cvars, lvars, gvars>>)
  /\ SF_vars(ServerOnQueueShutdown /\ UNCHANGED <<cvars, lvars, gvars>>)
  /\ WF_vars(ServerStop /\ UNCHANGED <<cvars, lvars, gvars>>)
  /\ WF_vars(EnvElapsed /\ UNCHANGED <<cvars, lvars, gvars>>)
  /\ WF_vars(EnvGrace /\ UNCHANGED <<cvars, lvars, gvars>>)

\* ----------------------------------------------- the calls of the log level
NextLog ==
  \/ (\E level \in LogArgs : rgrpc_set_log_level(level))
       /\ UNCHANGED <<cvars, svars, lvars>>
  \/ rgrpc_get_log_level /\ UNCHANGED <<cvars, svars, lvars>>

SpecLog == Init /\ [][NextLog]_vars

\* ================================================================= CLAIMS

\* C1: a fault raised by a registered handler is caught at dispatch and becomes
\* status INTERNAL for that call, and the pass of the loop that dispatched it leaves
\* the server in its loop with the send batch for that call prepared.
C1_HandlerFaultIsInternal ==
  [][(s_disp' # s_disp /\ s_disp'.valid /\ s_disp'.thrown # "none")
       => /\ s_pc' = "loop"
          /\ s_send'.status = "INTERNAL"
          /\ s_send'.call = s_disp'.call
          /\ s_send'.message = NullBB]_vars

\* C1 witness: after a handler fault, a later call was dispatched to a working
\* handler and its OK answer has been sent.
C1_Witness ==
  /\ s_faulted
  /\ s_send.call > 1
  /\ s_send.status = "OK"
  /\ s_disp.thrown = "none"
  /\ s_evq # <<>> /\ Head(s_evq) = Complete("SEND", TRUE)

\* C2: the status of the send batch follows from the read completion by priority:
\* failed read, then absent payload, then unregistered method (detail names the
\* method), then the handler's normal return (OK with its value as the message);
\* OK only when a handler was invoked and returned normally.
C2_StatusRule ==
  s_disp.valid /\ s_pc # "crashed" =>
    LET registered == s_disp.method \in DOMAIN Registry
        normal == s_disp.success /\ s_disp.bb.present /\ registered
                  /\ s_disp.thrown = "none"
    IN /\ s_send.call = s_disp.call
       /\ ~s_disp.success => s_send.status = "CANCELLED"
       /\ s_disp.success /\ ~s_disp.bb.present => s_send.status = "INVALID_ARGUMENT"
       /\ s_disp.success /\ s_disp.bb.present /\ ~registered =>
            /\ s_send.status = "UNIMPLEMENTED"
            /\ Contains(s_send.details, s_disp.method)
       /\ normal =>
            /\ s_send.status = "OK"
            /\ s_send.message =
                 BB(Invoke(Registry[s_disp.method], s_disp.bb.bytes).value)
       /\ s_send.status = "OK" => normal

\* C2 witness: a read that succeeded without a payload for an unregistered method
\* was answered INVALID_ARGUMENT, the earlier rule.
C2_Witness ==
  /\ s_disp.valid
  /\ s_disp.success /\ ~s_disp.bb.present
  /\ s_disp.method = "/none"
  /\ s_send.status = "INVALID_ARGUMENT"

\* C3: a client call to a method with the identity handler, completed by the
\* server's answer, returns exactly the payload it sent, with status OK.
C3_IdentityRoundTrip ==
  ( /\ c_pc = "done"
    /\ c_in.method \in DOMAIN Registry
    /\ Registry[c_in.method] = "identity"
    /\ c_event = [type |-> "OP_COMPLETE", success |-> TRUE]
    /\ l_answered = "server" )
  => /\ c_ret = Return(c_in.payload)
     /\ c_seen.status = "OK"

\* C3 witness: a non-empty payload made the round trip.
C3_Witness ==
  /\ c_pc = "done"
  /\ c_in.method = "/echo"
  /\ Len(c_in.payload) > 0
  /\ l_answered = "server"
  /\ c_ret = Return(c_in.payload)

\* C4: a client call with odd-length metadata, or an empty target or method, ends
\* in a fault and creates no queue, channel, call or batch.
C4_BadInputFailsFast ==
  ( /\ c_pc # "idle"
    /\ \/ Len(c_in.metadata) % 2 = 1
       \/ c_in.target = ""
       \/ c_in.method = "" )
  => /\ c_pc = "done"
     /\ c_ret.kind = "fault"
     /\ c_alloc["cq"] = 0 /\ c_alloc["channel"] = 0 /\ c_alloc["call"] = 0
     /\ c_batch = "none"

\* C5: a client call that ended because its deadline elapsed (a queue timeout, or a
\* failed completion after the deadline) is classified as a timeout, has issued one
\* cancellation, and gave its caller a fault and no payload.
C5_DeadlineIsTimeout ==
  ( /\ c_pc = "done"
    /\ \/ c_event.type = "QUEUE_TIMEOUT"
       \/ c_event.type = "OP_COMPLETE" /\ ~c_event.success /\ c_deadline )
  => /\ c_error = <<"Robust Client: Call timed out waiting for completion queue.">>
     /\ c_cancel = 1
     /\ c_ret.kind = "fault"

\* C6: the client call gives its caller a value exactly when its batch completed
\* with success and the status received is OK; otherwise it ends with a fault.
C6_ValueOnlyOnSuccessOK ==
  c_pc = "done" =>
    /\ c_ret.kind \in {"value", "fault"}
    /\ c_ret.kind = "value" <=>
         ( /\ c_event = [type |-> "OP_COMPLETE", success |-> TRUE]
           /\ c_seen.status = "OK" )

\* C7: after a successful completion with a status other than OK the caller's
\* fault carries the status code and the detail string as they were received.
C7_RemoteFaultVerbatim ==
  ( /\ c_pc = "done"
    /\ c_event = [type |-> "OP_COMPLETE", success |-> TRUE]
    /\ c_seen.status # "OK" )
  => /\ c_ret.kind = "fault"
     /\ c_ret.fault = <<"RPC failed with server status ", to_string(c_seen.status),
                        ": ">> \o c_seen.details

\* C7 witness: UNIMPLEMENTED with a detail string was received and reported.
C7_Witness ==
  /\ c_pc = "done"
  /\ c_event = [type |-> "OP_COMPLETE", success |-> TRUE]
  /\ c_seen.status = "UNIMPLEMENTED"
  /\ c_seen.details = <<"peer detail">>
  /\ c_ret.kind = "fault"

\* the case of C8: a successful completion with status OK and no response message
OKWithoutMessage ==
  /\ c_pc = "done"
  /\ c_event = [type |-> "OP_COMPLETE", success |-> TRUE]
  /\ c_seen.status = "OK"
  /\ ~c_seen.response_bb.present

\* what the same completion yields when the response is present and empty
ResultOfEmptyMessage ==
  Classify(c_event, [c_seen EXCEPT !.response_bb = BB(<<>>)]).result

\* C8 as stated: OK without a message succeeds with a value that differs from the
\* result of a present but empty payload.
C8_NoPayloadDistinct ==
  OKWithoutMessage =>
    /\ c_ret.kind = "value"
    /\ c_ret.value # ResultOfEmptyMessage

\* C8 amended: OK without a message succeeds (no fault) and the result is the empty
\* byte vector, the same value a present but empty payload yields.
C8_NoPayloadIsEmptyVector ==
  OKWithoutMessage =>
    /\ c_ret = Return(<<>>)
    /\ c_ret.value = ResultOfEmptyMessage

\* C8 witness: such a call has returned.
C8_Witness == OKWithoutMessage /\ c_ret.kind = "value"

\* the resource kinds C9 names: buffers, metadata entries and arrays, call, channel
C9Kinds == {"request_bb", "response_bb", "md_entry", "md_recv_initial",
            "md_recv_trailing", "call", "channel"}

\* C9: when the client call has ended, every buffer, metadata entry, metadata
\* array, call handle and channel handle it created has been released exactly once.
C9_AllReleasedOnce ==
  c_pc = "done" => \A r \in C9Kinds : c_free[r] = c_alloc[r]

\* whether a shutdown trigger has occurred or the run has left the loop
ShutdownTriggered ==
  s_pc # "loop" \/ s_intr \/ (s_elapsed /\ s_dur > 0) \/ s_qshut

\* C10: a call that reached SENDING_RESPONSE is eventually recycled, with a new
\* accept request posted, unless a shutdown trigger occurs first.
C10_SlotIsRecycled ==
  (s_phase = "SENDING_RESPONSE")
    ~> ((s_phase = "AWAITING_CALL" /\ Pending(s_ops, "NEW_CALL")) \/ ShutdownTriggered)

\* the tags of the per-call operations: accept request, read batch, send batch
CallTags == {"NEW_CALL", "READ", "SEND"}

RECURSIVE SumOver(_, _)
SumOver(f, keys) ==
  IF keys = {} THEN 0
  ELSE LET k == CHOOSE x \in keys : TRUE IN f[k] + SumOver(f, keys \ {k})

\* per-call operations submitted whose completion the loop has not yet observed
Outstanding ==
  SumOver(s_ops, CallTags)
  + Cardinality({i \in 1..Len(s_evq) : s_evq[i].tag \in CallTags})

\* call handles accepted and not yet released
LiveCalls == {h \in 1..s_accepted : s_unref[h] = 0}

\* C11: while the server runs, at most one accept request, read batch or send batch
\* is outstanding, at most one accepted call is unreleased, and no accept request is
\* pending while a call occupies the slot.
C11_OneOperationInFlight ==
  s_pc \in {"loop", "draining"} =>
    /\ Outstanding <= 1
    /\ Cardinality(LiveCalls) <= 1
    /\ Pending(s_ops, "NEW_CALL") => s_call = 0

\* C11 witness: the second call occupies the slot with its send batch outstanding.
C11_Witness ==
  /\ s_pc = "loop"
  /\ s_call = 2
  /\ s_ops["SEND"] = 1
  /\ Outstanding = 1

\* the loop takes the completion with this tag from the queue in this step
Observes(tag) ==
  /\ s_pc = "loop"
  /\ s_evq # <<>>
  /\ Head(s_evq).type = "OP_COMPLETE" /\ Head(s_evq).tag = tag
  /\ s_evq' = Tail(s_evq)

\* an operation with this tag is submitted in this step
Submits(tag) == s_ops'[tag] > s_ops[tag]

\* the part of C12 about the read and the send batch
BatchesFollowCompletions ==
  /\ Submits("READ") => Observes("NEW_CALL") /\ Head(s_evq).success
  /\ Submits("SEND") => Observes("READ")
  /\ Observes("NEW_CALL") => s_phase = "AWAITING_CALL"
  /\ Observes("READ") => s_phase = "READING_REQUEST"
  /\ Observes("SEND") => s_phase = "SENDING_RESPONSE"

\* C12 as stated: the read batch is submitted only on the successful accept
\* completion, the send batch only on the read completion, and while a call
\* occupies the slot the next accept request only on the send completion.
C12_AcceptReadSend ==
  [][/\ BatchesFollowCompletions
     /\ (Submits("NEW_CALL") /\ s_call # 0) => Observes("SEND")]_vars

\* C12 amended: as stated, except that the next accept request is also posted on
\* the accept completion when the read batch was refused and the call released.
C12_AcceptReadSendOrRefusedRead ==
  [][/\ BatchesFollowCompletions
     /\ (Submits("NEW_CALL") /\ s_call # 0) =>
          \/ Observes("SEND")
          \/ /\ Observes("NEW_CALL") /\ Head(s_evq).success
             /\ ~Submits("READ")
             /\ s_unref'[s_call] = s_unref[s_call] + 1]_vars

\* C12 witness: the second call was accepted and read, and the completion of its
\* send batch waits to be observed.
C12_Witness ==
  /\ s_pc = "loop"
  /\ s_call = 2
  /\ s_disp.valid /\ s_disp.call = 2
  /\ s_phase = "SENDING_RESPONSE"
  /\ s_evq # <<>> /\ Head(s_evq).tag = "SEND"

\* C13: no call handle is released twice, none is released before it was accepted,
\* the handle in the slot is still unreleased, and when the run has stopped every
\* accepted handle has been released exactly once.
C13_CallReleasedOnce ==
  /\ \A h \in 1..MaxCalls :
       /\ s_unref[h] <= 1
       /\ h > s_accepted => s_unref[h] = 0
  /\ (s_pc \in {"loop", "draining"} /\ s_call # 0) => s_unref[s_call] = 0
  /\ s_pc = "stopped" => \A h \in 1..s_accepted : s_unref[h] = 1

\* C13 witness: the run stopped after a first call released in the loop and a
\* second call whose send batch was refused and which the shutdown released.
C13_Witness ==
  /\ s_pc = "stopped"
  /\ s_accepted = 2
  /\ s_send.call = 2 /\ s_send.error
  /\ s_unref[1] = 1 /\ s_unref[2] = 1

ServingPhases == {"AWAITING_CALL", "READING_REQUEST", "SENDING_RESPONSE"}

\* a shutdown trigger is present while the loop runs
TriggerInLoop ==
  /\ s_pc = "loop"
  /\ s_intr \/ (s_elapsed /\ s_dur > 0) \/ s_qshut

\* C14: the loop is always in one of the three serving states, and from there a
\* pending interrupt, an elapsed positive duration or a queue reporting shutdown
\* leads to SHUTTING_DOWN; in SHUTTING_DOWN no accept request is posted, no read or
\* send batch is submitted, and the state is not left.
C14_TriggersShutDown ==
  /\ TriggerInLoop ~> (s_phase = "SHUTTING_DOWN")
  /\ [][/\ s_pc = "loop" => s_phase \in ServingPhases
        /\ s_phase = "SHUTTING_DOWN" =>
             /\ s_phase' = "SHUTTING_DOWN"
             /\ \A t \in CallTags : s_ops'[t] <= s_ops[t]]_vars

\* C14 witness: the queue's shutdown was observed while a call was in
\* SENDING_RESPONSE, and the server is shutting down.
C14_Witness ==
  /\ s_phase = "SHUTTING_DOWN"
  /\ s_exit = "queue_shutdown"
  /\ s_disp.valid /\ s_call # 0

\* C15: with a duration of 0 the loop is never left because of elapsed time: when
\* it has been left, the reason is an interrupt, a queue-shutdown event or a
\* refused accept request.
C15_ZeroDurationNeverExpires ==
  (s_pc # "init" /\ s_dur = 0) =>
    /\ s_exit # "duration"
    /\ s_phase = "SHUTTING_DOWN" =>
         s_exit \in {"interrupt", "queue_shutdown", "request_failed"}

\* C15 witness: with duration 0 the loop deadline has passed and the loop is still
\* serving its second call.
C15_Witness ==
  /\ s_dur = 0
  /\ s_elapsed
  /\ s_pc = "loop"
  /\ s_call = 2
  /\ s_phase = "READING_REQUEST"

\* how many times the hook point was reached
HookCount(name) ==
  Cardinality({i \in 1..Len(s_hooklog) : s_hooklog[i].name = name})

\* C16: a run with a positive duration whose loop is running reaches the end of the
\* shutdown sequence unless a call comes in; the loop is left for the duration
\* only once it has elapsed; the stopped hook point is reached exactly once when the
\* run has stopped and not before.
C16_DurationEndsRun ==
  /\ (s_pc = "loop" /\ s_dur > 0) ~> (s_pc = "stopped" \/ s_accepted > 0)
  /\ [](s_exit = "duration" => s_elapsed /\ s_dur > 0)
  /\ [](HookCount("stopped") = IF s_pc = "stopped" THEN 1 ELSE 0)

\* C16 witness: a run with positive duration and no call has stopped because the
\* duration elapsed.
C16_Witness ==
  /\ s_pc = "stopped"
  /\ s_dur > 0
  /\ s_accepted = 0
  /\ s_exit = "duration"
  /\ HookCount("stopped") = 1

\* the order in which the code places its hook points
HookOrder == <<"server_create", "queue_create", "bind", "server_start", "run",
               "shutdown", "stopped">>

\* the hook points reached so far are the first ones of HookOrder, each once
ReachedInOrder ==
  /\ Len(s_hooklog) <= Len(HookOrder)
  /\ \A i \in 1..Len(s_hooklog) : s_hooklog[i].name = HookOrder[i]

\* no hook point is reached by a pass of the loop that stays in the loop
NoHookWhileServing ==
  (s_pc = "loop" /\ s_pc' = "loop") => s_hooklog' = s_hooklog

\* the parameter list the bind hook point passed on
BindEntries == {i \in 1..Len(s_hooklog) : s_hooklog[i].name = "bind"}

\* C17 as stated: the hook points are reached in the fixed order, each at most
\* once, none by a pass of the loop that stays in the loop, and the bind hook is
\* given the number of a port that was bound.
C17_HooksInOrder ==
  /\ [](/\ ReachedInOrder
        /\ \A i \in BindEntries :
             /\ s_hooklog[i].params = {<<"port", s_port>>}
             /\ s_port > 0)
  /\ [][NoHookWhileServing]_vars

\* C17 amended: as stated, except that the bind hook is given the result of the
\* bind attempt, which is 0 when no port was bound; a run reaches server_start only
\* with a bound port.
C17_HooksInOrderBindResult ==
  /\ [](/\ ReachedInOrder
        /\ \A i \in BindEntries : s_hooklog[i].params = {<<"port", s_port>>}
        /\ Len(s_hooklog) > 3 => s_port > 0)
  /\ [][NoHookWhileServing]_vars

\* C17 witness: a run that served two calls has reached all seven hook points.
C17_Witness ==
  /\ s_pc = "stopped"
  /\ s_accepted = 2
  /\ Len(s_hooklog) = 7
  /\ s_port > 0

\* the number of hook points passed at each position of the run
PointsPassed ==
  CASE s_pc = "init" -> {0}
    [] s_pc = "failed" -> {0, 1, 3}
    [] s_pc = "loop" -> {5}
    [] s_pc = "draining" -> {6}
    [] s_pc = "stopped" -> {7}
    [] OTHER -> {}

\* C18: whatever the hooks list holds, no hook call lets an exception escape, a
\* hook is invoked exactly when its name is in the list, and the position of the
\* run determines the hook points passed, the same as when every hook returns.
C18_HooksNeverDivert ==
  /\ s_pc # "crashed"
  /\ \A i \in 1..Len(s_hooklog) :
       /\ ~s_hooklog[i].escaped
       /\ s_hooklog[i].invoked <=> (s_hooks[s_hooklog[i].name] # "absent")
  /\ ReachedInOrder
  /\ Len(s_hooklog) \in PointsPassed

\* C18 witness: a run whose run hook is absent and whose server_start and shutdown
\* hooks fault has served a call and stopped.
C18_Witness ==
  /\ s_pc = "stopped"
  /\ s_hooks["run"] = "absent"
  /\ s_hooks["server_start"] = "raise unknown"
  /\ s_hooks["shutdown"] = "raise Rcpp::exception"
  /\ s_accepted > 0
  /\ Len(s_hooklog) = 7

\* the event that ended the wait is the shutdown acknowledgment
AckObserved ==
  s_shutdown_event.type = "OP_COMPLETE" /\ s_shutdown_event.tag = "SHUTDOWN"

\* C19: the wait for the shutdown acknowledgment ends only on the completion with
\* the shutdown tag, on the timeout of the grace period or on the queue's shutdown
\* event, never on a completion with another tag.
C19_DrainEndsOnAckOnly ==
  s_pc = "stopped" =>
    \/ AckObserved
    \/ s_shutdown_event.type \in {"QUEUE_TIMEOUT", "QUEUE_SHUTDOWN"}

\* C20 as stated: cancel-all is issued only when the grace period timed out without
\* the acknowledgment, and not when the acknowledgment was observed.
C20_CancelAllOnlyAfterGrace ==
  s_pc = "stopped" =>
    /\ s_cancel_all > 0 => s_shutdown_event.type = "QUEUE_TIMEOUT"
    /\ AckObserved => s_cancel_all = 0

\* C20 amended: cancel-all is issued exactly once in every shutdown sequence, after
\* the wait for the acknowledgment has ended, whatever event ended it; it is never
\* issued before.
C20_CancelAllAlways ==
  s_cancel_all = IF s_pc = "stopped" THEN 1 ELSE 0

\* C20 witness: the acknowledgment was observed and cancel-all was still issued.
C20_Witness ==
  /\ s_pc = "stopped"
  /\ AckObserved
  /\ s_cancel_all = 1

\* the positions of the calls of this function in a sequence of library calls
CallsOf(calls, fn) == {i \in 1..Len(calls) : calls[i].fn = fn}

\* every destroy of the queue comes after a shutdown of the queue and a poll that
\* returned the queue's shutdown event
DrainedBeforeDestroy(calls) ==
  \A i \in CallsOf(calls, "grpc_completion_queue_destroy") :
    \E j \in CallsOf(calls, "grpc_completion_queue_shutdown") :
      \E k \in CallsOf(calls, "grpc_completion_queue_next") :
        /\ j < k /\ k < i
        /\ calls[k].arg[Len(calls[k].arg)] = "QUEUE_SHUTDOWN"

\* C21: in client and server, a completion queue is destroyed only after it was shut
\* down and polled until it reported queue-shutdown, on the failure paths as well.
C21_QueueDrainedBeforeDestroy ==
  /\ DrainedBeforeDestroy(c_calls)
  /\ DrainedBeforeDestroy(s_cq)

\* read and send batches of the server whose completion the run has not observed
UnobservedBatches ==
  s_ops["READ"] + s_ops["SEND"]
  + Cardinality({i \in 1..Len(s_evq) : s_evq[i].tag \in {"READ", "SEND"}})

\* C22: nothing a submitted batch refers to is released before the batch's
\* completion was observed: the client's cleanup releases nothing of a batch still
\* outstanding, and the server's shutdown cleanup releases no call whose read or
\* send batch is still unobserved.
C22_BatchOutlivedByItsResources ==
  /\ c_early = {}
  /\ s_pc = "stopped" => UnobservedBatches = 0

\* C23: every response payload buffer created for a send batch is released exactly
\* once, and none is still allocated when the slot of its call is recycled.
C23_ResponseBufferReleasedOnce ==
  /\ "response_bb" \notin s_lost
  /\ "response_bb" \notin s_twice
  /\ s_free["response_bb"] <= s_alloc["response_bb"]

\* the batch is receive-close, a message exactly when the status is OK, one status
WellFormedSend(b) ==
  /\ Len(b.ops) \in {2, 3}
  /\ b.ops[1] = "RECV_CLOSE_ON_SERVER"
  /\ b.ops[Len(b.ops)] = "SEND_STATUS_FROM_SERVER"
  /\ Cardinality({i \in 1..Len(b.ops) : b.ops[i] = "SEND_STATUS_FROM_SERVER"}) = 1
  /\ (Len(b.ops) = 3) <=> (b.status = "OK")
  /\ Len(b.ops) = 3 => b.ops[2] = "SEND_MESSAGE"
  /\ b.message.present <=> (b.status = "OK")

\* C24: every read completion the loop dispatches hands exactly one send batch for
\* the call in the slot to the library, made of receive-close-on-server, a
\* send-message exactly when the status is OK, and one send-status; a send batch is
\* made at no other step, and never a second one for the same call.
C24_OneSendBatchPerCall ==
  [][/\ Observes("READ") =>
          /\ s_send'.call = s_call
          /\ s_send.call # s_call
          /\ WellFormedSend(s_send')
     /\ (s_send' # s_send /\ s_send' # NoSend) => Observes("READ")]_vars

\* C24 witness: the second call got status OK and its three-operation batch, after
\* the first call was answered.
C24_Witness ==
  /\ s_pc = "loop"
  /\ s_send.call = 2
  /\ s_send.status = "OK"
  /\ s_send.ops = <<"RECV_CLOSE_ON_SERVER", "SEND_MESSAGE", "SEND_STATUS_FROM_SERVER">>
  /\ s_unref[1] = 1

\* the loop takes a failed accept completion from the queue in this step
ObservesFailedAccept == Observes("NEW_CALL") /\ ~Head(s_evq).success

\* shutdown was requested: an interrupt is pending or the duration has elapsed, and
\* the loop has not yet come back to its tests of server.cpp:171-183
ShutdownRequested == s_intr \/ DurationExpired

\* the handler posted a new accept request and the run stays in the loop
RepostsAndServes ==
  /\ Submits("NEW_CALL")
  /\ s_pc' = "loop" /\ s_phase' = "AWAITING_CALL"
  /\ s_exit' = s_exit

\* the handler posted nothing and the run left the loop for the shutdown sequence
LeavesWithoutRepost ==
  /\ ~Submits("NEW_CALL")
  /\ s_pc' = "draining" /\ s_phase' = "SHUTTING_DOWN"

\* C25 as stated: on a failed accept completion the server posts a new accept
\* request and keeps serving unless shutdown was requested, and when shutdown was
\* requested it does not re-post and leaves the loop. A request the library refuses
\* without any trigger pending is not held against the statement here.
C25_RepostUnlessShutdown ==
  [][ObservesFailedAccept =>
       IF ShutdownRequested
       THEN LeavesWithoutRepost
       ELSE RepostsAndServes \/ LeavesWithoutRepost]_vars

\* C25 amended: on a failed accept completion the server requests a new accept
\* whether or not a shutdown trigger is pending; it keeps serving when the request
\* was taken, and it leaves the loop for the shutdown sequence, with nothing posted,
\* exactly when the request was refused.
C25_RepostUnlessRefused ==
  [][ObservesFailedAccept =>
       /\ s_call' = s_call
       /\ \/ RepostsAndServes
          \/ LeavesWithoutRepost /\ s_exit' = "request_failed"]_vars

\* C25 witness: no call was ever accepted, an interrupt is pending, and the loop was
\* left because the accept request made after a failed completion was refused.
C25_Witness ==
  /\ s_pc = "draining"
  /\ s_exit = "request_failed"
  /\ s_accepted = 0
  /\ s_intr

\* the loop takes a successful accept completion and the read batch is refused
ReadBatchRefused ==
  /\ Observes("NEW_CALL") /\ Head(s_evq).success
  /\ ~Submits("READ")

\* C26: when the read batch of an accepted call is refused, the call's handle is
\* released and the slot emptied, and the new accept request is posted with call
\* details and metadata in their initialised state, the run staying in the loop.
C26_RefusedReadRearmsCleanly ==
  [][ReadBatchRefused =>
       /\ s_unref'[s_call] = s_unref[s_call] + 1
       /\ s_call' = 0
       /\ Submits("NEW_CALL") => (s_pc' = "loop" /\ s_slots' = "init")]_vars

\* C27: a client run that created its call hands exactly one batch to the library,
\* made of the six operations in the stated order; when the library rejects it the
\* run makes no poll for the call's completion and no cancellation, and ends in a
\* fault.
C27_OneBatchOfSix ==
  LET starts == CallsOf(c_calls, "grpc_call_start_batch")
      waits == {i \in CallsOf(c_calls, "grpc_completion_queue_next") :
                  c_calls[i].arg[1] = "call_deadline"}
  IN /\ Cardinality(starts) = c_alloc["call"]
     /\ Cardinality(starts) <= 1
     /\ \A i \in starts :
          c_calls[i].arg = <<"SEND_INITIAL_METADATA", "SEND_MESSAGE",
                             "SEND_CLOSE_FROM_CLIENT", "RECV_INITIAL_METADATA",
                             "RECV_MESSAGE", "RECV_STATUS_ON_CLIENT">>
     /\ c_batch = "rejected" =>
          /\ waits = {}
          /\ c_event = NoEvent
          /\ CallsOf(c_calls, "grpc_call_cancel_with_status") = {}
          /\ c_cancel = 0
          /\ c_pc = "done" => c_ret.kind = "fault"

\* C27 witness: a run with metadata whose batch was rejected has ended in a fault.
C27_Witness ==
  /\ c_pc = "done"
  /\ c_batch = "rejected"
  /\ Len(c_store) > 0
  /\ c_ret.kind = "fault"

\* C28: the client's wait ends on a queue timeout only when the call deadline has
\* elapsed; otherwise the wait goes on until a completion arrives (or the queue
\* reports its shutdown), and once the deadline has elapsed the wait does end.
C28_TimeoutOnlyAtDeadline ==
  /\ [](c_event.type = "QUEUE_TIMEOUT" => c_deadline)
  /\ [][(c_pc = "waiting" /\ c_pc' # "waiting") =>
          \/ c_event'.type = "OP_COMPLETE" /\ c_batch = "posted"
          \/ c_event'.type = "QUEUE_TIMEOUT" /\ c_deadline
          \/ c_event'.type = "QUEUE_SHUTDOWN" /\ c_qshut]_vars
  /\ (c_pc = "waiting" /\ c_deadline) ~> (c_pc # "waiting")

\* C28 witness: the wait ended on a queue timeout after the deadline had elapsed,
\* the batch still outstanding.
C28_Witness ==
  /\ c_pc = "draining"
  /\ c_event.type = "QUEUE_TIMEOUT"
  /\ c_deadline
  /\ c_batch = "pending"

\* the cleanup block's calls that unreference a slice of the metadata store
StoreUnrefs ==
  {i \in CallsOf(c_calls, "grpc_slice_unref") :
     c_calls[i].arg[1] \in {"meta.key", "meta.value"}}

\* the cleanup block's destroy of the outbound metadata array
SendArrayDestroys ==
  {i \in CallsOf(c_calls, "grpc_metadata_array_destroy") :
     c_calls[i].arg[1] = "initial_metadata_send"}

\* C29: in a run that reached the cleanup block, the key and the value of every
\* record of the metadata store are unreferenced, each once, before the one destroy
\* of the outbound metadata array, and at that destroy the array no longer points
\* into the store, so the destroy releases none of the store's entries again.
C29_StoreReleasedBeforeArray ==
  (c_pc \in {"draining", "done"} /\ c_batch # "none") =>
    /\ Cardinality(SendArrayDestroys) = 1
    /\ Cardinality(StoreUnrefs) = 2 * Len(c_store)
    /\ \A i \in StoreUnrefs : \A d \in SendArrayDestroys : i < d
    /\ \A d \in SendArrayDestroys : c_calls[d].arg[2] = "null"
    /\ c_send_md = EmptyMdArray
    /\ c_free["md_entry"] = c_alloc["md_entry"]

\* C29 witness: a call that sent one metadata record has completed and cleaned up.
C29_Witness ==
  /\ c_pc = "done"
  /\ c_batch = "observed"
  /\ Len(c_store) = 1
  /\ Cardinality(StoreUnrefs) = 2

\* C30: the pass of the loop that processes a read completion leaves the request
\* payload slot empty on every dispatch branch and releases a received request
\* buffer exactly once; no request buffer is ever released twice or left allocated
\* when its slot is recycled, the shutdown cleanup included.
C30_RequestBufferReleasedOnce ==
  /\ [][Observes("READ") =>
          /\ s_req_bb' = NullBB
          /\ s_free'["request_bb"] = s_free["request_bb"]
                                     + (IF s_req_bb.present THEN 1 ELSE 0)
          /\ s_free'["request_bb"] = s_alloc'["request_bb"]]_vars
  /\ [](/\ "request_bb" \notin s_twice
        /\ "request_bb" \notin s_lost
        /\ s_free["request_bb"] <= s_alloc["request_bb"])

\* C30 witness: a failed read had left a buffer, it was released at dispatch, and
\* the run was shut down with that call still in the slot.
C30_Witness ==
  /\ s_pc = "stopped"
  /\ s_disp.valid /\ ~s_disp.success /\ s_disp.bb.present
  /\ s_call # 0 /\ s_disp.call = s_call
  /\ s_unref[s_call] = 1

\* ---------------------------------------------------------------------------
\* Library initialisation and shutdown (client.cpp:63, 105-139, 301-308;
\* server.cpp:104-139, 466-470)

\* the client call has returned or raised
ClientExited == c_pc = "done"

\* the server run has returned or raised
ServerExited == s_pc \in {"failed", "stopped", "crashed"}

\* C31: on every exit path of the client call and of the server run, the normal
\* return and every fault raised after grpc_init included, the library has been
\* initialised once and shut down exactly once.
C31_LibraryShutDownOnEveryExit ==
  /\ ClientExited => (c_alloc["grpc"] = 1 /\ c_free["grpc"] = 1)
  /\ ServerExited => (s_alloc["grpc"] = 1 /\ s_free["grpc"] = 1)

\* the same for the exits of the client call alone that are not the failure to
\* create the completion queue
C31_ClientShutDownUnlessNoQueue ==
  (ClientExited /\ c_ret.fault # <<"Robust Client: Failed to create CQ.">>)
    => (c_alloc["grpc"] = 1 /\ c_free["grpc"] = 1)

\* the same for the exits of the server run on which no lifecycle hook raised
C31_ServerShutDownUnlessHookRaised ==
  (s_pc \in {"failed", "stopped"}) => (s_alloc["grpc"] = 1 /\ s_free["grpc"] = 1)

\* ---------------------------------------------------------------------------
\* The global log level (logging.cpp:8-29)

\* the arguments of the calls of rgrpc_set_log_level in `calls` that were levels
ValidSets(calls) ==
  SelectSeq(calls, LAMBDA c : c.fn = "rgrpc_set_log_level"
                              /\ c.arg \in RGRPC_LOG_LEVEL)

\* the level the calls in `calls` ask for: the argument of the latest call of
\* rgrpc_set_log_level that was a level, INFO when there was none
LevelAskedFor(calls) ==
  IF ValidSets(calls) = <<>>
  THEN RGRPC_LOG_LEVEL_INFO
  ELSE ValidSets(calls)[Len(ValidSets(calls))].arg

\* this step is a call of `fn`
LogStep(fn) ==
  /\ Len(log_calls') = Len(log_calls) + 1
  /\ log_calls'[Len(log_calls')].fn = fn

\* C32: after any sequence of calls of rgrpc_set_log_level the global log level is
\* one of the levels 0..5 and is the argument of the latest call whose argument was
\* within 0..5, INFO = 3 when there was none; a call with an argument outside 0..5
\* leaves the level as it was; rgrpc_get_log_level returns the current level and
\* leaves it as it was.
C32_LogLevelFollowsValidSets ==
  /\ [](/\ rgrpc_global_log_level \in RGRPC_LOG_LEVEL_NONE..RGRPC_LOG_LEVEL_TRACE
        /\ rgrpc_global_log_level = LevelAskedFor(log_calls))
  /\ [][(/\ LogStep("rgrpc_set_log_level")
         /\ log_calls'[Len(log_calls')].arg \notin RGRPC_LOG_LEVEL)
          => rgrpc_global_log_level' = rgrpc_global_log_level]_vars
  /\ [][LogStep("rgrpc_get_log_level")
          => /\ log_calls'[Len(log_calls')].out = rgrpc_global_log_level
             /\ rgrpc_global_log_level' = rgrpc_global_log_level]_vars

\* C32 witness: the level was set to TRACE, a call with the argument 6 followed,
\* and rgrpc_get_log_level then returned TRACE.
C32_Witness ==
  /\ Len(log_calls) >= 3
  /\ log_calls[1] = LogCall("rgrpc_set_log_level", RGRPC_LOG_LEVEL_TRACE, "Rcout")
  /\ log_calls[2] = LogCall("rgrpc_set_log_level", RGRPC_LOG_LEVEL_TRACE + 1,
                            "warning")
  /\ log_calls[3] = LogCall("rgrpc_get_log_level", <<>>, RGRPC_LOG_LEVEL_TRACE)
  /\ rgrpc_global_log_level = RGRPC_LOG_LEVEL_TRACE

====
